---- MODULE Spec2Model ----
(***************************************************************************)
(* A model of the grocery logic of the notes application:                  *)
(*   - categorizeFoodItem, the keyword categorizer (both NotesScreen       *)
(*     variants of src/unnamed/part_003),                                  *)
(*   - buildUnifiedGroceryList and the handlers of NotesScreen that change *)
(*     notes and unifiedGroceryList,                                       *)
(*   - addItemsFromVoiceOrNote of GroceryManager                           *)
(*     (src/src/components/GroceryManager.tsx),                            *)
(*   - ContentTypeDetector and the TaskList it renders                     *)
(*     (src/src/components/ContentTypeDetector.tsx, TaskList.tsx).         *)
(* JavaScript strings are TLA+ strings; toLowerCase and includes are       *)
(* computed character by character.                                        *)
(***************************************************************************)
EXTENDS Integers, Sequences, FiniteSets, TLC

VARIABLES
    variant,            \* the component that is mounted: 1: NotesScreen of part_003:36,
                        \* 2: NotesScreen of part_003:975, 3: GroceryManager,
                        \* 4: ContentTypeDetector, 5: a caller of the AI gateway,
                        \* 6: AudioRecorder, 7: App
    item,               \* categorizeFoodItem: the argument
    category,           \* categorizeFoodItem: the returned value
    cpc,                \* categorizeFoodItem: "call" before the call, "return" after it
    notes,              \* NotesScreen state: the notes
    unifiedGroceryList, \* NotesScreen state: category -> items
    groceryItems,       \* the mapping the latest buildUnifiedGroceryList run handed to
                        \* setUnifiedGroceryList (its local groceryItems / filledCategories)
    isLoading,          \* NotesScreen state: handleExtractTasks is awaiting the gateway
    inputText,          \* NotesScreen state: the text handleExtractTasks was started on
    closureNotes,       \* the notes array the running handleExtractTasks closed over
                        \* (first variant: setNotes([...notes, x]))
    groceryData,        \* GroceryManager state: groceryData.categories, category -> items
    storedList,         \* AsyncStorage under GROCERY_LIST_STORAGE_KEY (<<>>: nothing saved)
    pendingLoad,        \* loadGroceryList of the mount: what getItem read, until it is set
    initialItems,       \* GroceryManager prop: the groups handed in by the parent
    content,            \* ContentTypeDetector prop: the payload, a JavaScript value
    contentTitle,       \* ContentTypeDetector prop title (a string, or undefined)
    dpc,                \* ContentTypeDetector: the statement it is at
    parsedContent,      \* ContentTypeDetector: const parsedContent, once assigned
    evaluated,          \* the CASE conditions evaluated so far, and "parse" for line 34
    error,              \* the error the try block threw, as the catch block gets it
    view,               \* the element ContentTypeDetector returned
    rendered,           \* what the TaskList of the returned element shows
    callFn,             \* gateway: the function that was called ("" before the call)
    callArgs,           \* gateway: its arguments (text, title, audioUri or audioBlob)
    remote,             \* gateway: what the remote side did during the call
    gatewayPc,          \* gateway: "idle", "awaiting" the remote call, "settled"
    settled,            \* gateway: how the promise the function returned settled
    recorderPc,         \* AudioRecorder.processAudioFile: the statement it is at
    recorderIsLoading,  \* AudioRecorder state isLoading
    uri,                \* the uri of the recording processAudioFile was called with
    recording,          \* the device side of the run: the recorded file, DEEPGRAM_KEY
    uriTranscription,   \* const transcription of the URI attempt, once assigned
    blobTranscription,  \* const transcription of the blob attempt, once assigned
    attempts,           \* the transcription functions called so far, in order
    delivered,          \* the texts onTranscriptionComplete was invoked with, in order
    alerts,             \* the titles of the Alert.alert calls, in order
    appPc,              \* App.checkApiKeys: the statement it is at
    appIsLoading,       \* App state isLoading
    appError,           \* App state error (null, or the message)
    envStatus,          \* App state envStatus (null, or allValid of the status)
    testRequest         \* the completions the requests of the connection test got

catVars == <<item, category, cpc>>
screenVars == <<notes, unifiedGroceryList, groceryItems, isLoading, inputText, closureNotes>>
managerVars == <<groceryData, storedList, pendingLoad, initialItems>>
detectorVars == <<content, contentTitle, dpc, parsedContent, evaluated, error, view, rendered>>
gatewayVars == <<callFn, callArgs, remote, gatewayPc, settled>>
recorderVars == <<recorderPc, recorderIsLoading, uri, recording, uriTranscription, blobTranscription,
                  attempts, delivered, alerts>>
appVars == <<appPc, appIsLoading, appError, envStatus, testRequest>>
serviceVars == <<gatewayVars, recorderVars, appVars>>
vars == <<variant, catVars, screenVars, managerVars, detectorVars, serviceVars>>

(***************************************************************************)
(* Bounds                                                                  *)
(***************************************************************************)
\* An item name given to categorizeFoodItem is a concatenation of at most
\* MaxPieces pieces of NamePieces.
MaxPieces == 3
\* A grouped payload given to ContentTypeDetector has at most MaxTasks tasks
\* and MaxGroups note groups of at most MaxIndices task indices each.
MaxTasks == 2
MaxGroups == 2
MaxIndices == 2
\* The screen holds at most MaxNotes notes, and these hold at most MaxEntries
\* tasks and ingredients in all.
MaxNotes == 2
MaxEntries == 2

(***************************************************************************)
(* JavaScript string primitives                                            *)
(***************************************************************************)
UpperChars == "ABCDEFGHIJKLMNOPQRSTUVWXYZ"
LowerChars == "abcdefghijklmnopqrstuvwxyz"

CharAt(s, i) == SubSeq(s, i, i)

\* The lower-case letter of each upper-case letter, and the other way round.
LowerOfUpper ==
    [c \in {CharAt(UpperChars, i) : i \in 1..Len(UpperChars)} |->
        CharAt(LowerChars, CHOOSE i \in 1..Len(UpperChars) : CharAt(UpperChars, i) = c)]
UpperOfLower ==
    [c \in {CharAt(LowerChars, i) : i \in 1..Len(LowerChars)} |->
        CharAt(UpperChars, CHOOSE i \in 1..Len(LowerChars) : CharAt(LowerChars, i) = c)]

\* One character of String.prototype.toLowerCase.
LowerChar(c) == IF c \in DOMAIN LowerOfUpper THEN LowerOfUpper[c] ELSE c

\* One character of String.prototype.toUpperCase.
UpperChar(c) == IF c \in DOMAIN UpperOfLower THEN UpperOfLower[c] ELSE c

RECURSIVE MapChars(_, _)
MapChars(s, upper) ==
    IF Len(s) = 0 THEN ""
    ELSE (IF upper THEN UpperChar(CharAt(s, 1)) ELSE LowerChar(CharAt(s, 1)))
         \o MapChars(SubSeq(s, 2, Len(s)), upper)

\* The bug "the name is not lower-cased before it is compared".
toLowerCaseIdentity(s) == s

\* String.prototype.toLowerCase.
toLowerCase(s) == MapChars(s, FALSE)

\* String.prototype.toUpperCase (used to name the case variants of a name).
toUpperCase(s) == MapChars(s, TRUE)

Whitespace == {" ", "\t", "\n"}

\* String.prototype.trim.
RECURSIVE Trim(_)
Trim(s) ==
    IF Len(s) = 0 THEN s
    ELSE IF CharAt(s, 1) \in Whitespace THEN Trim(SubSeq(s, 2, Len(s)))
    ELSE IF CharAt(s, Len(s)) \in Whitespace THEN Trim(SubSeq(s, 1, Len(s) - 1))
    ELSE s

\* String.prototype.includes: k occurs in s as a substring.
Includes(s, k) ==
    \E i \in 1..(Len(s) - Len(k) + 1) : SubSeq(s, i, i + Len(k) - 1) = k

(***************************************************************************)
(* categorizeFoodItem                                                      *)
(***************************************************************************)
FOOD_CATEGORIES ==
    <<"produce", "dairy", "meat", "seafood", "frozen", "pantry",
      "bakery", "beverages", "snacks", "spices", "other">>

FoodCategorySet == {FOOD_CATEGORIES[i] : i \in 1..Len(FOOD_CATEGORIES)}

\* The keyword tests of the first variant, on the lower-cased name.
KeywordsV1(group) ==
    CASE group = "produce"   -> {"fruit", "vegetable", "lettuce", "tomato", "onion", "potato"}
      [] group = "dairy"     -> {"milk", "cheese", "yogurt", "butter", "cream"}
      [] group = "meat"      -> {"chicken", "beef", "pork", "turkey"}
      [] group = "seafood"   -> {"fish", "shrimp", "salmon", "tuna"}
      [] group = "frozen"    -> {"frozen", "ice cream"}
      [] group = "pantry"    -> {"flour", "sugar", "oil", "pasta", "can", "sauce"}
      [] group = "bakery"    -> {"bread", "bagel", "muffin", "bakery"}
      [] group = "beverages" -> {"juice", "soda", "water", "coffee", "tea"}
      [] group = "snacks"    -> {"chip", "cookie", "crackers", "nuts"}
      [] group = "spices"    -> {"spice", "herb", "salt", "pepper", "seasoning"}
      [] OTHER               -> {}

\* The keyword tests of the second variant, on the lower-cased name.
KeywordsV2(group) ==
    CASE group = "dairy"     -> {"milk", "cheese", "yogurt", "cream"}
      [] group = "produce"   -> {"apple", "banana", "vegetable", "lettuce", "tomato", "onion"}
      [] group = "meat"      -> {"chicken", "beef", "pork"}
      [] group = "seafood"   -> {"fish", "shrimp", "salmon"}
      [] group = "frozen"    -> {"ice", "frozen"}
      [] group = "bakery"    -> {"bread", "bagel", "muffin"}
      [] group = "spices"    -> {"salt", "pepper", "spice", "herb"}
      [] group = "beverages" -> {"soda", "juice", "water", "drink"}
      [] group = "snacks"    -> {"chip", "cookie", "cracker"}
      [] group = "pantry"    -> {"flour", "sugar", "rice", "pasta", "can"}
      [] OTHER               -> {}

\* One condition of the if / else-if chain: lowerItem.includes(k) || ...
TestV1(lowerItem, group) == \E k \in KeywordsV1(group) : Includes(lowerItem, k)
TestV2(lowerItem, group) == \E k \in KeywordsV2(group) : Includes(lowerItem, k)

\* The bug "frozen is tested before meat" (the order the other way round).
categorizeFoodItemV1FrozenFirst(name) ==
    LET lowerItem == toLowerCase(name) IN
    IF      TestV1(lowerItem, "produce")   THEN "produce"
    ELSE IF TestV1(lowerItem, "dairy")     THEN "dairy"
    ELSE IF TestV1(lowerItem, "frozen")    THEN "frozen"
    ELSE IF TestV1(lowerItem, "meat")      THEN "meat"
    ELSE IF TestV1(lowerItem, "seafood")   THEN "seafood"
    ELSE IF TestV1(lowerItem, "pantry")    THEN "pantry"
    ELSE IF TestV1(lowerItem, "bakery")    THEN "bakery"
    ELSE IF TestV1(lowerItem, "beverages") THEN "beverages"
    ELSE IF TestV1(lowerItem, "snacks")    THEN "snacks"
    ELSE IF TestV1(lowerItem, "spices")    THEN "spices"
    ELSE "other"

\* The bug "the last branch returns a label that is no food category".
categorizeFoodItemV1General(name) ==
    LET lowerItem == toLowerCase(name) IN
    IF      TestV1(lowerItem, "produce")   THEN "produce"
    ELSE IF TestV1(lowerItem, "dairy")     THEN "dairy"
    ELSE IF TestV1(lowerItem, "meat")      THEN "meat"
    ELSE IF TestV1(lowerItem, "seafood")   THEN "seafood"
    ELSE IF TestV1(lowerItem, "frozen")    THEN "frozen"
    ELSE IF TestV1(lowerItem, "pantry")    THEN "pantry"
    ELSE IF TestV1(lowerItem, "bakery")    THEN "bakery"
    ELSE IF TestV1(lowerItem, "beverages") THEN "beverages"
    ELSE IF TestV1(lowerItem, "snacks")    THEN "snacks"
    ELSE IF TestV1(lowerItem, "spices")    THEN "spices"
    ELSE "general"

\* The bug "the keywords are looked for in the name as it is written".
categorizeFoodItemV1CaseSensitive(name) ==
    LET lowerItem == name IN
    IF      TestV1(lowerItem, "produce")   THEN "produce"
    ELSE IF TestV1(lowerItem, "dairy")     THEN "dairy"
    ELSE IF TestV1(lowerItem, "meat")      THEN "meat"
    ELSE IF TestV1(lowerItem, "seafood")   THEN "seafood"
    ELSE IF TestV1(lowerItem, "frozen")    THEN "frozen"
    ELSE IF TestV1(lowerItem, "pantry")    THEN "pantry"
    ELSE IF TestV1(lowerItem, "bakery")    THEN "bakery"
    ELSE IF TestV1(lowerItem, "beverages") THEN "beverages"
    ELSE IF TestV1(lowerItem, "snacks")    THEN "snacks"
    ELSE IF TestV1(lowerItem, "spices")    THEN "spices"
    ELSE "other"

\* categorizeFoodItem of the first variant.
categorizeFoodItemV1(name) ==
    LET lowerItem == toLowerCase(name) IN
    IF      TestV1(lowerItem, "produce")   THEN "produce"
    ELSE IF TestV1(lowerItem, "dairy")     THEN "dairy"
    ELSE IF TestV1(lowerItem, "meat")      THEN "meat"
    ELSE IF TestV1(lowerItem, "seafood")   THEN "seafood"
    ELSE IF TestV1(lowerItem, "frozen")    THEN "frozen"
    ELSE IF TestV1(lowerItem, "pantry")    THEN "pantry"
    ELSE IF TestV1(lowerItem, "bakery")    THEN "bakery"
    ELSE IF TestV1(lowerItem, "beverages") THEN "beverages"
    ELSE IF TestV1(lowerItem, "snacks")    THEN "snacks"
    ELSE IF TestV1(lowerItem, "spices")    THEN "spices"
    ELSE "other"

\* categorizeFoodItem of the second variant.
categorizeFoodItemV2(name) ==
    LET lowerItem == toLowerCase(name) IN
    IF      TestV2(lowerItem, "dairy")     THEN "dairy"
    ELSE IF TestV2(lowerItem, "produce")   THEN "produce"
    ELSE IF TestV2(lowerItem, "meat")      THEN "meat"
    ELSE IF TestV2(lowerItem, "seafood")   THEN "seafood"
    ELSE IF TestV2(lowerItem, "frozen")    THEN "frozen"
    ELSE IF TestV2(lowerItem, "bakery")    THEN "bakery"
    ELSE IF TestV2(lowerItem, "spices")    THEN "spices"
    ELSE IF TestV2(lowerItem, "beverages") THEN "beverages"
    ELSE IF TestV2(lowerItem, "snacks")    THEN "snacks"
    ELSE IF TestV2(lowerItem, "pantry")    THEN "pantry"
    ELSE "other"

\* The categorizer of the screen in use.
categorizeFoodItem(name) ==
    IF variant = 1 THEN categorizeFoodItemV1(name) ELSE categorizeFoodItemV2(name)

(***************************************************************************)
(* The categorizer on its own: every bounded item name, both variants      *)
(***************************************************************************)
NamePieces == {"Frozen", " chicken", "MILK", "tomato", "r", "ice", " Tea", "x"}

RECURSIVE NamesUpTo(_)
NamesUpTo(n) ==
    IF n = 0 THEN {""}
    ELSE LET shorter == NamesUpTo(n - 1)
         IN  shorter \cup {a \o p : a \in shorter, p \in NamePieces}

\* Every keyword of either variant is an item name too.
KeywordNames == UNION {KeywordsV1(g) \cup KeywordsV2(g) : g \in FoodCategorySet}

ItemNames == NamesUpTo(MaxPieces) \cup KeywordNames

(***************************************************************************)
(* JavaScript values (the payloads of ContentTypeDetector)                 *)
(***************************************************************************)
Undefined == [type |-> "undefined"]
Null == [type |-> "null"]
Str(s) == [type |-> "string", s |-> s]
Num(n) == [type |-> "number", n |-> n]
Bool(b) == [type |-> "boolean", b |-> b]
\* An array of the given elements, an object of the given own properties.
Arr(items) == [type |-> "array", items |-> items]
Obj(fields) == [type |-> "object", fields |-> fields]

\* The bug "an empty array is falsy".
TruthyOfNonEmpty(v) ==
    CASE v.type \in {"undefined", "null"} -> FALSE
      [] v.type = "boolean" -> v.b
      [] v.type = "number" -> v.n # 0
      [] v.type = "string" -> v.s # ""
      [] v.type = "array" -> v.items # <<>>
      [] OTHER -> TRUE

\* The bug "only null and undefined are no content".
TruthyOfEmptyString(v) ==
    CASE v.type \in {"undefined", "null"} -> FALSE
      [] v.type = "boolean" -> v.b
      [] v.type = "number" -> v.n # 0
      [] OTHER -> TRUE

\* ToBoolean: what if (v), !v, v && ..., v || ... test.
Truthy(v) ==
    CASE v.type \in {"undefined", "null"} -> FALSE
      [] v.type = "boolean" -> v.b
      [] v.type = "number" -> v.n # 0
      [] v.type = "string" -> v.s # ""
      [] OTHER -> TRUE

\* typeof v
TypeOf(v) ==
    CASE v.type \in {"array", "null"} -> "object"
      [] OTHER -> v.type

\* v.k: reading a property of null or undefined throws a TypeError; a
\* property that is not there reads as undefined.
ThrowsOnRead(v) == v.type \in {"undefined", "null"}
Get(v, k) ==
    IF v.type = "object" /\ k \in DOMAIN v.fields THEN v.fields[k] ELSE Undefined

\* Array.isArray(v)
IsArray(v) == v.type = "array"

\* The gateway, AudioRecorder and App are not part of the runs of the other components.
GatewayIdle ==
    /\ callFn = ""
    /\ callArgs = Undefined
    /\ remote = Undefined
    /\ gatewayPc = "idle"
    /\ settled = Undefined
RecorderIdle ==
    /\ recorderPc = "idle"
    /\ recorderIsLoading = FALSE
    /\ uri = ""
    /\ recording = Undefined
    /\ uriTranscription = Undefined
    /\ blobTranscription = Undefined
    /\ attempts = <<>>
    /\ delivered = <<>>
    /\ alerts = <<>>
AppIdle ==
    /\ appPc = "idle"
    /\ appIsLoading = FALSE
    /\ appError = Null
    /\ envStatus = Null
    /\ testRequest = <<>>
ServiceIdle == GatewayIdle /\ RecorderIdle /\ AppIdle

\* ContentTypeDetector is not mounted in the runs of the other components.
DetectorIdle ==
    /\ content = Undefined
    /\ contentTitle = Undefined
    /\ dpc = "idle"
    /\ parsedContent = Undefined
    /\ evaluated = {}
    /\ error = Undefined
    /\ view = Undefined
    /\ rendered = Undefined

\* useState of GroceryManager: six empty categories.
ManagerCategories == <<"produce", "dairy", "meat", "bakery", "pantry", "other">>
ManagerCategorySet == {ManagerCategories[i] : i \in 1..Len(ManagerCategories)}
EmptyGroceryData == [c \in ManagerCategorySet |-> <<>>]

\* GroceryManager is not mounted in the runs of the other components.
ManagerIdle ==
    /\ groceryData = EmptyGroceryData
    /\ storedList = <<>>
    /\ pendingLoad = [pending |-> FALSE, savedList |-> <<>>]
    /\ initialItems = <<>>

\* The screen before its first render is not part of the categorizer's runs.
ScreenIdle ==
    /\ notes = <<>>
    /\ unifiedGroceryList = <<>>
    /\ groceryItems = <<>>
    /\ isLoading = FALSE
    /\ inputText = ""
    /\ closureNotes = <<>>

CatInit ==
    /\ variant \in {1, 2}
    /\ item \in ItemNames
    /\ category = ""
    /\ cpc = "call"
    /\ ScreenIdle
    /\ ManagerIdle
    /\ DetectorIdle
    /\ ServiceIdle

\* const category = categorizeFoodItem(item)
Categorize ==
    /\ cpc = "call"
    /\ category' = categorizeFoodItem(item)
    /\ cpc' = "return"
    /\ UNCHANGED <<variant, item, screenVars, managerVars, detectorVars, serviceVars>>

CatNext == Categorize

SpecCategorizer == CatInit /\ [][CatNext]_vars

(***************************************************************************)
(* Claims about categorizeFoodItem (checked under SpecCategorizer)         *)
(***************************************************************************)
\* The groups in the order in which each variant tests them.
TestOrderV1 ==
    <<"produce", "dairy", "meat", "seafood", "frozen", "pantry",
      "bakery", "beverages", "snacks", "spices">>
TestOrderV2 ==
    <<"dairy", "produce", "meat", "seafood", "frozen", "bakery",
      "spices", "beverages", "snacks", "pantry">>
TestOrder == IF variant = 1 THEN TestOrderV1 ELSE TestOrderV2

\* The lower-cased name contains a keyword of the group.
MatchesGroup(lowerItem, group) ==
    IF variant = 1 THEN TestV1(lowerItem, group) ELSE TestV2(lowerItem, group)

\* The positions, in the test order, of the groups the name matches.
MatchingPositions(name) ==
    {i \in 1..Len(TestOrder) : MatchesGroup(toLowerCase(name), TestOrder[i])}

MinOf(S) == CHOOSE m \in S : \A n \in S : m <= n

\* C1: categorizeFoodItem returns, for every item name (the empty one too), one
\* of the 11 food categories, and returns other when the lower-cased name
\* contains no keyword of any group.
C1_TotalIntoCategories ==
    cpc = "return" =>
        /\ category \in FoodCategorySet
        /\ MatchingPositions(item) = {} => category = "other"

\* C1 witness: the empty name has been categorized, as other.
C1_Witness == cpc = "return" /\ item = "" /\ category = "other"

\* C2 (as amended): the first group of the test order that the name matches
\* decides the category; a name containing both "frozen" and "chicken" is
\* never frozen, and is meat unless it also matches produce or dairy, the two
\* groups tested before meat.
C2_FirstMatchWins ==
    cpc = "return" =>
        LET lowerItem == toLowerCase(item)
            hits == MatchingPositions(item)
        IN  /\ hits # {} => category = TestOrder[MinOf(hits)]
            /\ (Includes(lowerItem, "frozen") /\ Includes(lowerItem, "chicken")) =>
                   /\ category # "frozen"
                   /\ (~MatchesGroup(lowerItem, "produce") /\ ~MatchesGroup(lowerItem, "dairy"))
                          => category = "meat"

\* C2 witness: a name with "frozen" and "chicken" in mixed case, matching the
\* meat and the frozen group, has been categorized as meat.
C2_Witness ==
    /\ cpc = "return"
    /\ item # toLowerCase(item)
    /\ Includes(toLowerCase(item), "frozen")
    /\ Includes(toLowerCase(item), "chicken")
    /\ Cardinality(MatchingPositions(item)) >= 2
    /\ category = "meat"

\* C2 as stated: every name containing both "frozen" and "chicken" is meat.
C2_Original ==
    (/\ cpc = "return"
     /\ Includes(toLowerCase(item), "frozen")
     /\ Includes(toLowerCase(item), "chicken")) => category = "meat"

\* C3: a name whose lower-cased text matches exactly one keyword group gets
\* that group's category, and so do its upper-cased and lower-cased variants.
C3_SingleGroupAnyCase ==
    cpc = "return" =>
        LET hits == MatchingPositions(item)
        IN  Cardinality(hits) = 1 =>
                /\ category = TestOrder[MinOf(hits)]
                /\ categorizeFoodItem(toUpperCase(item)) = category
                /\ categorizeFoodItem(toLowerCase(item)) = category

\* C3 witness: a mixed-case name matching one group only has been categorized.
C3_Witness ==
    /\ cpc = "return"
    /\ Cardinality(MatchingPositions(item)) = 1
    /\ item # toLowerCase(item)
    /\ item # toUpperCase(item)
    /\ category # "other"

(***************************************************************************)
(* NotesScreen: buildUnifiedGroceryList                                    *)
(***************************************************************************)
\* A note as the handlers create it. A note that is no recipe has isRecipe
\* and recipeDetails undefined: isRecipe FALSE and no ingredients here.
NoDetails == [hasIngredients |-> FALSE, ingredients |-> <<>>]

NewNote(id, title, cat, tasks) ==
    [id |-> id, title |-> title, category |-> cat, tasks |-> tasks,
     isRecipe |-> FALSE, recipeDetails |-> NoDetails]

NewRecipeNote(id, title, details) ==
    [id |-> id, title |-> title, category |-> "recipe", tasks |-> <<>>,
     isRecipe |-> TRUE, recipeDetails |-> details]

\* The bug "the names are compared as written, not lower-cased".
AlreadyThereCaseSensitive(items, text) ==
    \E i \in 1..Len(items) : items[i].text = text

\* The bug "the names are trimmed before they are compared".
AlreadyThereTrimmed(items, text) ==
    \E i \in 1..Len(items) : Trim(toLowerCase(items[i].text)) = Trim(toLowerCase(text))

\* groceryItems[category].some(item => item.text.toLowerCase() === text.toLowerCase())
AlreadyThere(items, text) ==
    \E i \in 1..Len(items) : toLowerCase(items[i].text) = toLowerCase(text)

\* The recipe branch for one ingredient.
AddIngredient(g, ingredient, title) ==
    LET c == categorizeFoodItem(ingredient) IN
    IF ~AlreadyThere(g[c], ingredient)
    THEN [g EXCEPT ![c] = Append(@, [text |-> ingredient, done |-> FALSE,
                                      recipeSource |-> title])]
    ELSE g

\* The bug "a later occurrence of a name replaces the item already there".
AddTaskOverwrite(g, task) ==
    LET c == categorizeFoodItem(task.text) IN
    IF ~AlreadyThere(g[c], task.text)
    THEN [g EXCEPT ![c] = Append(@, [text |-> task.text, done |-> task.done])]
    ELSE [g EXCEPT ![c] = [i \in 1..Len(@) |->
              IF toLowerCase(@[i].text) = toLowerCase(task.text)
              THEN [text |-> task.text, done |-> task.done] ELSE @[i]]]

\* The bug "a shopping item is pushed like an ingredient, with done: false".
AddTaskNotDone(g, task) ==
    LET c == categorizeFoodItem(task.text) IN
    IF ~AlreadyThere(g[c], task.text)
    THEN [g EXCEPT ![c] = Append(@, [text |-> task.text, done |-> FALSE])]
    ELSE g

\* The grocery/shopping branch for one task.
AddTask(g, task) ==
    LET c == categorizeFoodItem(task.text) IN
    IF ~AlreadyThere(g[c], task.text)
    THEN [g EXCEPT ![c] = Append(@, [text |-> task.text, done |-> task.done])]
    ELSE g

\* note.recipeDetails.ingredients.forEach(...), from ingredient i on.
RECURSIVE AddIngredients(_, _, _, _)
AddIngredients(g, ingredients, title, i) ==
    IF i > Len(ingredients) THEN g
    ELSE AddIngredients(AddIngredient(g, ingredients[i], title), ingredients, title, i + 1)

\* note.tasks.forEach(...), from task i on.
RECURSIVE AddTasks(_, _, _)
AddTasks(g, tasks, i) ==
    IF i > Len(tasks) THEN g
    ELSE AddTasks(AddTask(g, tasks[i]), tasks, i + 1)

\* note.isRecipe && note.recipeDetails?.ingredients
IsRecipeWithIngredients(note) ==
    note.isRecipe /\ note.recipeDetails.hasIngredients

\* The bug "the category is compared as written".
IsShoppingNoteCaseSensitive(note) ==
    note.category = "grocery" \/ note.category = "shopping"

\* note.category.toLowerCase() === 'grocery' || note.category.toLowerCase() === 'shopping'
IsShoppingNote(note) ==
    toLowerCase(note.category) = "grocery" \/ toLowerCase(note.category) = "shopping"

\* The body of notes.forEach(note => ...).
AddNote(g, note) ==
    LET g1 == IF IsRecipeWithIngredients(note)
              THEN AddIngredients(g, note.recipeDetails.ingredients, note.title, 1)
              ELSE g
    IN  IF IsShoppingNote(note) THEN AddTasks(g1, note.tasks, 1) ELSE g1

\* notes.forEach(...), from note i on.
RECURSIVE AddNotes(_, _, _)
AddNotes(g, ns, i) ==
    IF i > Len(ns) THEN g
    ELSE AddNotes(AddNote(g, ns[i]), ns, i + 1)

\* The bug "the build goes on from the list in the state".
InitialGroceryItemsFromState(current) ==
    [c \in FoodCategorySet |-> IF c \in DOMAIN current THEN current[c] ELSE <<>>]

\* FOOD_CATEGORIES.forEach(category => groceryItems[category] = []): the build
\* could read the unifiedGroceryList of its render (current) and does not.
InitialGroceryItems(current) ==
    [c \in FoodCategorySet |-> <<>>]

\* The bug "the empty categories stay in the mapping".
KeepEveryCategory(g) == g

\* "Remove empty categories" / "Only keep categories with items".
DropEmptyCategories(g) ==
    [c \in {k \in DOMAIN g : Len(g[k]) > 0} |-> g[c]]

\* buildUnifiedGroceryList on the notes ns; current is unifiedGroceryList at
\* the time of the run.
buildUnifiedGroceryList(ns, current) ==
    DropEmptyCategories(AddNotes(InitialGroceryItems(current), ns, 1))

(***************************************************************************)
(* NotesScreen: what the gateway can answer (bounded)                      *)
(***************************************************************************)
\* The texts of ingredients, grocery items and tasks.
TaskTexts == {"Milk", "milk", "Milk ", "Chicken"}
\* Titles and categories the gateway gives to recipes and note groups.
RecipeTitles == {"Soup"}
GroupTitles == {"Errands"}
GroupCategories == {"Shopping", "work"}
\* Texts the user submits.
InputTexts == {"", "recipe for soup", "grocery run", "call mom"}

SeqsUpTo(S, n) == UNION {[1..k -> S] : k \in 0..n}

\* Arrays of strings, and arrays of {text, done}.
TextLists == SeqsUpTo(TaskTexts, MaxEntries)
TaskLists == SeqsUpTo([text : TaskTexts, done : BOOLEAN], MaxEntries)

\* JSON.parse(completion...content) of generateRecipeDetails (first variant):
\* title and ingredients may be missing.
RecipeAnswers ==
    [hasTitle : BOOLEAN, title : RecipeTitles, hasIngredients : BOOLEAN,
     ingredients : TextLists]

\* The indices from up to below to, in order.
IndexRun(from, to) == [i \in 1..(to - from) |-> from + i - 1]

\* The result of categorizeTasksAndSuggestNotes: tasks, and at most n note
\* groups whose taskIndices point into tasks. The groups drawn split the tasks
\* in order (a group may be empty); an answer with other in-range indices
\* (repeated, permuted, left out) gives the notes that one of these answers
\* gives for a list of the tasks it points to.
GroupsOver(tasks, n) ==
    LET last == Len(tasks) + 1
        heads == [title : GroupTitles, category : GroupCategories]
    IN  (IF last = 1 THEN {<<>>} ELSE {})
        \cup (IF n >= 1
               THEN {<<[title |-> h.title, category |-> h.category,
                        taskIndices |-> IndexRun(1, last)]>> : h \in heads}
               ELSE {})
        \cup (IF n >= 2
               THEN {<<[title |-> h[1].title, category |-> h[1].category,
                        taskIndices |-> IndexRun(1, cut)],
                       [title |-> h[2].title, category |-> h[2].category,
                        taskIndices |-> IndexRun(cut, last)]>> :
                        h \in heads \X heads, cut \in 1..last}
               ELSE {})

(***************************************************************************)
(* NotesScreen: helpers of the handlers                                    *)
(***************************************************************************)
isRecipeRequestV1(text) ==
    LET lowerText == toLowerCase(text) IN
    \/ Includes(lowerText, "recipe")
    \/ Includes(lowerText, "how to make")
    \/ Includes(lowerText, "how do i make")
    \/ Includes(lowerText, "ingredients for")
    \/ (Includes(lowerText, "make") /\ Includes(lowerText, "cook"))

isRecipeRequestV2(text) ==
    LET lowerText == toLowerCase(text) IN
    \/ Includes(lowerText, "recipe")
    \/ Includes(lowerText, "cook")
    \/ Includes(lowerText, "bake")
    \/ Includes(lowerText, "how to make")

\* "Check if this is specifically a grocery list".
IsGroceryTextV1(text) ==
    \/ Includes(toLowerCase(text), "grocery")
    \/ Includes(toLowerCase(text), "shopping list")
    \/ Includes(toLowerCase(text), "buy at store")

IsGroceryTextV2(text) ==
    \/ Includes(toLowerCase(text), "grocery")
    \/ Includes(toLowerCase(text), "shopping")
    \/ Includes(toLowerCase(text), "buy")

\* The characters of [\w\s].
WordOrSpace ==
    {CharAt(UpperChars, i) : i \in 1..Len(UpperChars)}
    \cup {CharAt(LowerChars, i) : i \in 1..Len(LowerChars)}
    \cup {CharAt("0123456789_", i) : i \in 1..11} \cup Whitespace

\* The longest run of [\w\s] characters at the start of s.
RECURSIVE WordRun(_)
WordRun(s) ==
    IF Len(s) > 0 /\ CharAt(s, 1) \in WordOrSpace
    THEN CharAt(s, 1) \o WordRun(SubSeq(s, 2, Len(s)))
    ELSE ""

\* The first capture of text.match(/<prefix>([\w\s]+)/i), "" when no match.
CaptureAfter(text, prefix) ==
    LET lowerText == toLowerCase(text)
        starts == {i \in 1..(Len(text) - Len(prefix)) :
                      /\ SubSeq(lowerText, i, i + Len(prefix) - 1) = prefix
                      /\ CharAt(text, i + Len(prefix)) \in WordOrSpace}
    IN  IF starts = {} THEN ""
        ELSE LET i == CHOOSE m \in starts : \A n \in starts : m <= n
             IN  WordRun(SubSeq(text, i + Len(prefix), Len(text)))

\* The first verb of text.match(/how to (make|cook|bake) ([\w\s]+)/i), "" when
\* no match (titleMatch[1] of the second pattern).
HowToVerb(text) ==
    LET hits == {v \in {"make", "cook", "bake"} :
                    CaptureAfter(text, "how to " \o v \o " ") # ""}
    IN  IF hits = {} THEN "" ELSE CHOOSE v \in hits : TRUE

\* recipeTitle of handleExtractTasks (second variant).
recipeTitleV2(text) ==
    LET first == CaptureAfter(text, "recipe for ")
        found == IF first # "" THEN first ELSE HowToVerb(text)
    IN  IF found = "" THEN "Recipe"
        ELSE UpperChar(CharAt(found, 1)) \o SubSeq(found, 2, Len(found))

\* generateRecipeDetails of the second variant: the ingredients it takes from
\* the tasks of categorizeTasksAndSuggestNotes.
IsCookingStep(text) ==
    LET lowerText == toLowerCase(text) IN
    \/ Includes(lowerText, "preheat")
    \/ Includes(lowerText, "mix")
    \/ Includes(lowerText, "stir")
    \/ Includes(lowerText, "cook")
    \/ Includes(lowerText, "bake")

RECURSIVE FilterTexts(_, _)
FilterTexts(tasks, cooking) ==
    IF tasks = <<>> THEN <<>>
    ELSE (IF IsCookingStep(Head(tasks).text) = cooking THEN <<Head(tasks).text>> ELSE <<>>)
         \o FilterTexts(Tail(tasks), cooking)

recipeIngredientsV2(tasks) ==
    IF Len(tasks) > 0
    THEN IF FilterTexts(tasks, TRUE) = <<>>
         THEN [i \in 1..Len(tasks) |-> tasks[i].text]
         ELSE FilterTexts(tasks, FALSE)
    ELSE <<>>

(***************************************************************************)
(* NotesScreen: state and handlers                                         *)
(***************************************************************************)
\* The categorizer's own run is not part of the screen's runs.
CatIdle == item = "" /\ category = "" /\ cpc = "idle"

\* The first render: no notes, and the effect has built the list from them.
ScreenInit ==
    /\ variant \in {1, 2}
    /\ CatIdle
    /\ notes = <<>>
    /\ unifiedGroceryList = buildUnifiedGroceryList(<<>>, <<>>)
    /\ groceryItems = buildUnifiedGroceryList(<<>>, <<>>)
    /\ isLoading = FALSE
    /\ inputText = ""
    /\ closureNotes = <<>>
    /\ ManagerIdle
    /\ DetectorIdle
    /\ ServiceIdle

\* The tasks and ingredients the notes ns hold.
RECURSIVE Entries(_)
Entries(ns) ==
    IF ns = <<>> THEN 0
    ELSE Len(Head(ns).tasks) + Len(Head(ns).recipeDetails.ingredients) + Entries(Tail(ns))

\* The bug "the effect does not run after setNotes".
SetNotesWithoutEffect(ns) ==
    /\ Len(ns) <= MaxNotes
    /\ Entries(ns) <= MaxEntries
    /\ notes' = ns
    /\ groceryItems' = buildUnifiedGroceryList(ns, unifiedGroceryList)
    /\ unifiedGroceryList' = unifiedGroceryList

\* useEffect(() => { buildUnifiedGroceryList(); }, [notes]) after setNotes(ns).
SetNotes(ns) ==
    /\ Len(ns) <= MaxNotes
    /\ Entries(ns) <= MaxEntries
    /\ notes' = ns
    /\ groceryItems' = buildUnifiedGroceryList(ns, unifiedGroceryList)
    /\ unifiedGroceryList' = groceryItems'

\* finally { setIsLoading(false) }
Finished ==
    /\ isLoading' = FALSE
    /\ inputText' = ""
    /\ closureNotes' = <<>>
    /\ UNCHANGED <<variant, catVars, managerVars, detectorVars, serviceVars>>

\* The tasks of a note made from an array of strings.
TasksOfTexts(texts) == [i \in 1..Len(texts) |-> [text |-> texts[i], done |-> FALSE]]

\* group.taskIndices.map(index => result.tasks[index])
TasksOfGroup(group, tasks) ==
    [i \in 1..Len(group.taskIndices) |-> tasks[group.taskIndices[i]]]

\* result.noteGroups.map(group => ({id, title, category, tasks})), the ids
\* following firstId.
NotesOfGroups(groups, tasks, firstId) ==
    [i \in 1..Len(groups) |->
        NewNote(firstId + i - 1, groups[i].title, groups[i].category,
                TasksOfGroup(groups[i], tasks))]

\* handleExtractTasks up to its first await: the button is disabled while
\* loading; an empty text alerts (first variant) or disables the button
\* (second variant).
handleExtractTasksStart ==
    /\ variant \in {1, 2}
    /\ ~isLoading
    /\ Len(notes) < MaxNotes
    /\ \E text \in InputTexts :
        IF Trim(text) = ""
        THEN variant = 1 /\ UNCHANGED vars
        ELSE /\ isLoading' = TRUE
             /\ inputText' = text
             /\ closureNotes' = (IF variant = 1 THEN notes ELSE <<>>)
             /\ UNCHANGED <<variant, catVars, managerVars, detectorVars, serviceVars, notes, unifiedGroceryList, groceryItems>>

\* First variant, recipe request: the recipe note, and the grocery note of its
\* ingredients.
V1ExtractRecipe ==
    /\ isLoading /\ variant = 1
    /\ isRecipeRequestV1(inputText)
    /\ \E answer \in RecipeAnswers :
        /\ answer.hasIngredients \/ answer.ingredients = <<>>
        /\ LET title == IF answer.hasTitle THEN answer.title ELSE "Recipe"
               rawTitle == IF answer.hasTitle THEN answer.title ELSE "undefined"
               recipeNote ==
                   NewRecipeNote(Len(closureNotes) + 1, title,
                                 [hasIngredients |-> answer.hasIngredients,
                                  ingredients |-> answer.ingredients])
               groceryNote ==
                   NewNote(Len(closureNotes) + 2, "Ingredients for " \o rawTitle,
                           "grocery", TasksOfTexts(answer.ingredients))
               result ==
                   IF answer.hasIngredients /\ Len(answer.ingredients) > 0
                   THEN closureNotes \o <<recipeNote, groceryNote>>
                   ELSE closureNotes \o <<recipeNote>>
           IN  SetNotes(result)
    /\ Finished

\* First variant, grocery text with items found: the "Shopping List" note.
V1ExtractGrocery ==
    /\ isLoading /\ variant = 1
    /\ ~isRecipeRequestV1(inputText)
    /\ IsGroceryTextV1(inputText)
    /\ \E items \in TextLists :
        /\ Len(items) > 0
        /\ SetNotes(Append(closureNotes,
                           NewNote(Len(closureNotes) + 1, "Shopping List", "grocery",
                                   TasksOfTexts(items))))
    /\ Finished

\* First variant, processCategorizedTasks (also for a grocery text in which no
\* items were found): one note per suggested group.
V1ExtractCategorized ==
    /\ isLoading /\ variant = 1
    /\ ~isRecipeRequestV1(inputText)
    /\ \E tasks \in TaskLists :
       \E groups \in GroupsOver(tasks, MaxNotes - Len(closureNotes)) :
            SetNotes(closureNotes \o NotesOfGroups(groups, tasks, Len(closureNotes) + 1))
    /\ Finished

\* First variant, the catch branch: the "Tasks" note of extractTasksFromText.
V1ExtractFallback ==
    /\ isLoading /\ variant = 1
    /\ \E tasks \in TaskLists :
        SetNotes(Append(closureNotes,
                        NewNote(Len(closureNotes) + 1, "Tasks", "general", tasks)))
    /\ Finished

\* Second variant, recipe request: the recipe note, put first.
V2ExtractRecipe ==
    /\ isLoading /\ variant = 2
    /\ isRecipeRequestV2(inputText)
    /\ \E tasks \in TaskLists :
        SetNotes(<<NewRecipeNote(Len(notes) + 1, recipeTitleV2(inputText),
                                 [hasIngredients |-> TRUE,
                                  ingredients |-> recipeIngredientsV2(tasks)])>>
                 \o notes)
    /\ Finished

\* Second variant, extractGroceryItems with tasks found: the "Grocery List" note.
V2ExtractGrocery ==
    /\ isLoading /\ variant = 2
    /\ ~isRecipeRequestV2(inputText)
    /\ IsGroceryTextV2(inputText)
    /\ \E tasks \in TaskLists :
        /\ Len(tasks) > 0
        /\ SetNotes(<<NewNote(Len(notes) + 1, "Grocery List", "grocery", tasks)>> \o notes)
    /\ Finished

\* Second variant, processCategorizedTasks with groups suggested.
V2ExtractCategorized ==
    /\ isLoading /\ variant = 2
    /\ ~isRecipeRequestV2(inputText)
    /\ ~IsGroceryTextV2(inputText)
    /\ \E tasks \in TaskLists :
       \E groups \in GroupsOver(tasks, MaxNotes - Len(notes)) :
            /\ Len(groups) > 0
            /\ SetNotes(NotesOfGroups(groups, tasks, Len(notes) + 1) \o notes)
    /\ Finished

\* Second variant, nothing to add (no recipe details, no tasks, no groups, or
\* an error alert): setNotes is not called, so the effect does not run.
V2ExtractNothing ==
    /\ isLoading /\ variant = 2
    /\ UNCHANGED <<notes, unifiedGroceryList, groceryItems>>
    /\ Finished

\* toggleTaskDone(noteId, taskIndex), pressed on a rendered task.
toggleTaskDone ==
    /\ \E n \in 1..Len(notes) :
       \E taskIndex \in 1..Len(notes[n].tasks) :
            LET noteId == notes[n].id IN
            SetNotes([k \in 1..Len(notes) |->
                IF notes[k].id = noteId
                THEN [notes[k] EXCEPT !.tasks[taskIndex].done = ~@]
                ELSE notes[k]])
    /\ UNCHANGED <<variant, catVars, managerVars, detectorVars, serviceVars, isLoading, inputText, closureNotes>>

\* toggleGroceryItemDone(category, index), pressed on a rendered item.
toggleGroceryItemDone ==
    /\ \E c \in DOMAIN unifiedGroceryList :
       \E index \in 1..Len(unifiedGroceryList[c]) :
            unifiedGroceryList' = [unifiedGroceryList EXCEPT ![c][index].done = ~@]
    /\ UNCHANGED <<variant, catVars, managerVars, detectorVars, serviceVars, notes, groceryItems, isLoading, inputText, closureNotes>>

(***************************************************************************)
(* GroceryManager: state and addItemsFromVoiceOrNote                       *)
(***************************************************************************)
\* What the parent hands in as initialItems: groups of a category and items
\* {name, quantity}; the quantity "" also stands for an absent one (both are
\* falsy, and both are stored as ''). One group of one item, with or without a
\* quantity; or MaxEntries items without quantities, in one group or in a
\* group each.
ManagerNames == {"Milk", "milk", "Milk "}
Quantities == {"", "2"}
ManagerGroupCategories == {"Dairy", "Fresh Vegetables"}
InputItem(name, quantity) == [name |-> name, quantity |-> quantity]
InputGroup(groupCategory, items) == [category |-> groupCategory, items |-> items]
NameLists == [1..MaxEntries -> ManagerNames]
InitialItemsSets ==
    {<<InputGroup(c, <<InputItem(n, q)>>)>> :
        c \in ManagerGroupCategories, n \in ManagerNames, q \in Quantities}
    \cup {<<InputGroup("Dairy", [i \in 1..MaxEntries |-> InputItem(ns[i], "")])>> :
            ns \in NameLists}
    \cup {[i \in 1..MaxEntries |->
            InputGroup(IF i = 1 THEN "Fresh Vegetables" ELSE "Dairy",
                       <<InputItem(ns[i], "")>>)] : ns \in NameLists}

\* A list saved by an earlier session of the component.
SavedLists ==
    {<<>>,
     [EmptyGroceryData EXCEPT
        !["dairy"] = <<[name |-> "milk", quantity |-> "", done |-> TRUE]>>]}

\* The mount: useState, and loadGroceryList has issued its getItem.
ManagerInit ==
    /\ variant = 3
    /\ CatIdle
    /\ ScreenIdle
    /\ groceryData = EmptyGroceryData
    /\ storedList \in SavedLists
    /\ pendingLoad = [pending |-> TRUE, savedList |-> storedList]
    /\ initialItems = <<>>
    /\ DetectorIdle
    /\ ServiceIdle

\* let targetCategory = 'other'; if (category.includes('produce') || ...) ...
targetCategoryOf(groupCategory) ==
    LET c == toLowerCase(groupCategory) IN
    IF Includes(c, "produce") \/ Includes(c, "vegetable") \/ Includes(c, "fruit")
        THEN "produce"
    ELSE IF Includes(c, "dairy") \/ Includes(c, "milk") \/ Includes(c, "cheese")
        THEN "dairy"
    ELSE IF Includes(c, "meat") \/ Includes(c, "protein") THEN "meat"
    ELSE IF Includes(c, "bakery") \/ Includes(c, "bread") THEN "bakery"
    ELSE IF Includes(c, "pantry") \/ Includes(c, "canned") THEN "pantry"
    ELSE "other"

\* items.findIndex(existingItem => existingItem.name.toLowerCase() ===
\* item.name.toLowerCase()), 1-based; 0 when there is none.
findIndexOfName(items, name) ==
    LET found == {i \in 1..Len(items) : toLowerCase(items[i].name) = toLowerCase(name)}
    IN  IF found = {} THEN 0 ELSE MinOf(found)

\* The bug "the quantity of an item that is there is always overwritten".
AddManagerItemAlwaysOverwrites(data, target, it) ==
    LET found == {c \in ManagerCategorySet : findIndexOfName(data[c], it.name) > 0}
    IN  IF found # {}
        THEN [c \in ManagerCategorySet |->
                 IF c \in found
                 THEN [data[c] EXCEPT ![findIndexOfName(data[c], it.name)].quantity =
                                           it.quantity]
                 ELSE data[c]]
        ELSE [data EXCEPT ![target] =
                 Append(@, [name |-> it.name, quantity |-> it.quantity, done |-> FALSE])]

\* The bug "an item is looked for in its target category only".
AddManagerItemInTargetOnly(data, target, it) ==
    LET at == findIndexOfName(data[target], it.name)
    IN  IF at > 0
        THEN IF it.quantity # ""
             THEN [data EXCEPT ![target][at].quantity = it.quantity]
             ELSE data
        ELSE [data EXCEPT ![target] =
                 Append(@, [name |-> it.name, quantity |-> it.quantity, done |-> FALSE])]

\* The body of categoryGroup.items.forEach: an item found in any category has
\* its quantity set there when one is given; an item found nowhere is pushed
\* to the target category.
AddManagerItem(data, target, it) ==
    LET found == {c \in ManagerCategorySet : findIndexOfName(data[c], it.name) > 0}
    IN  IF found # {}
        THEN IF it.quantity # ""
             THEN [c \in ManagerCategorySet |->
                     IF c \in found
                     THEN [data[c] EXCEPT ![findIndexOfName(data[c], it.name)].quantity =
                                               it.quantity]
                     ELSE data[c]]
             ELSE data
        ELSE [data EXCEPT ![target] =
                 Append(@, [name |-> it.name, quantity |-> it.quantity, done |-> FALSE])]

RECURSIVE AddManagerItems(_, _, _, _)
AddManagerItems(data, target, items, i) ==
    IF i > Len(items) THEN data
    ELSE AddManagerItems(AddManagerItem(data, target, items[i]), target, items, i + 1)

\* items.forEach(categoryGroup => ...)
RECURSIVE AddManagerGroups(_, _, _)
AddManagerGroups(data, groups, i) ==
    IF i > Len(groups) THEN data
    ELSE AddManagerGroups(
            AddManagerItems(data, targetCategoryOf(groups[i].category), groups[i].items, 1),
            groups, i + 1)

\* useEffect(() => { if (initialItems && initialItems.length > 0)
\* addItemsFromVoiceOrNote(initialItems) }, [initialItems]): the parent hands in
\* other groups; the handler sets the state and saves it.
addItemsFromVoiceOrNote ==
    /\ variant = 3
    /\ \E items \in InitialItemsSets :
        /\ items # initialItems
        /\ initialItems' = items
        /\ groceryData' = AddManagerGroups(groceryData, items, 1)
        /\ storedList' = groceryData'
    /\ UNCHANGED <<variant, catVars, screenVars, detectorVars, serviceVars, pendingLoad>>

\* loadGroceryList, when the getItem of the mount has answered:
\* if (savedList) setGroceryData(JSON.parse(savedList)).
loadGroceryList ==
    /\ variant = 3
    /\ pendingLoad.pending
    /\ pendingLoad' = [pending |-> FALSE, savedList |-> <<>>]
    /\ groceryData' = (IF pendingLoad.savedList # <<>> THEN pendingLoad.savedList
                       ELSE groceryData)
    /\ UNCHANGED <<variant, catVars, screenVars, detectorVars, serviceVars, storedList, initialItems>>

\* handleToggleItem(category, index), pressed on a rendered item; the list is
\* set and saved.
handleToggleItem ==
    /\ variant = 3
    /\ \E c \in ManagerCategorySet :
       \E index \in 1..Len(groceryData[c]) :
            groceryData' = [groceryData EXCEPT ![c][index].done = ~@]
    /\ storedList' = groceryData'
    /\ UNCHANGED <<variant, catVars, screenVars, detectorVars, serviceVars, pendingLoad, initialItems>>

\* categories[categoryKey].filter(item => !item.done)
NotDone(it) == ~it.done

\* clearCompletedItems: every category keeps its items that are not done; the
\* list is set and saved.
clearCompletedItems ==
    /\ variant = 3
    /\ groceryData' = [c \in ManagerCategorySet |-> SelectSeq(groceryData[c], NotDone)]
    /\ storedList' = groceryData'
    /\ UNCHANGED <<variant, catVars, screenVars, detectorVars, serviceVars, pendingLoad, initialItems>>

Next ==
    \/ handleExtractTasksStart
    \/ V1ExtractRecipe
    \/ V1ExtractGrocery
    \/ V1ExtractCategorized
    \/ V1ExtractFallback
    \/ V2ExtractRecipe
    \/ V2ExtractGrocery
    \/ V2ExtractCategorized
    \/ V2ExtractNothing
    \/ toggleTaskDone
    \/ toggleGroceryItemDone
    \/ addItemsFromVoiceOrNote
    \/ loadGroceryList
    \/ handleToggleItem
    \/ clearCompletedItems

Init == ScreenInit \/ ManagerInit

Spec == Init /\ [][Next]_vars

(***************************************************************************)
(* Claims about buildUnifiedGroceryList (checked under Spec)               *)
(***************************************************************************)
\* The entries of the notes that the builder is to read, each <<n, part, k>>:
\* ingredient k (part 1) or task k (part 2) of note n.
Contributions ==
    {<<n, 1, k>> : n \in {m \in 1..Len(notes) :
                            notes[m].isRecipe /\ notes[m].recipeDetails.hasIngredients},
                   k \in 1..MaxEntries}
    \cup {<<n, 2, k>> : n \in {m \in 1..Len(notes) :
                                 toLowerCase(notes[m].category) \in {"grocery", "shopping"}},
                        k \in 1..MaxEntries}

Occurrences ==
    {o \in Contributions :
        o[3] <= (IF o[2] = 1 THEN Len(notes[o[1]].recipeDetails.ingredients)
                 ELSE Len(notes[o[1]].tasks))}

OccText(o) ==
    IF o[2] = 1 THEN notes[o[1]].recipeDetails.ingredients[o[3]]
    ELSE notes[o[1]].tasks[o[3]].text

\* The item an occurrence stands for.
OccItem(o) ==
    IF o[2] = 1
    THEN [text |-> OccText(o), done |-> FALSE, recipeSource |-> notes[o[1]].title]
    ELSE [text |-> OccText(o), done |-> notes[o[1]].tasks[o[3]].done]

\* The processing order: notes in list order, ingredients before tasks.
Earlier(o, p) ==
    \/ o[1] < p[1]
    \/ o[1] = p[1] /\ o[2] < p[2]
    \/ o[1] = p[1] /\ o[2] = p[2] /\ o[3] < p[3]

\* The occurrences of a name, compared lower-cased.
OccurrencesNamed(text) == {o \in Occurrences : toLowerCase(OccText(o)) = toLowerCase(text)}

FirstOf(S) == CHOOSE o \in S : \A p \in S : p = o \/ Earlier(o, p)

\* The places <<category, index>> of a mapping, and those holding a name.
Places(list) == {<<c, i>> : c \in DOMAIN list, i \in 1..MaxEntries} 
PlacesOf(list) == {pl \in Places(list) : pl[2] <= Len(list[pl[1]])}
PlacesNamed(list, text) ==
    {pl \in PlacesOf(list) : toLowerCase(list[pl[1]][pl[2]].text) = toLowerCase(text)}

\* The list in the state has been changed by toggleGroceryItemDone since it
\* was built.
Toggled == unifiedGroceryList # groceryItems

\* C4: in the list, as built and after any toggleGroceryItemDone calls, no two
\* items of one category have names that are equal when lower-cased.
C4_NoDuplicateInCategory ==
    \A c \in DOMAIN unifiedGroceryList :
        \A i, j \in 1..Len(unifiedGroceryList[c]) :
            i < j => toLowerCase(unifiedGroceryList[c][i].text)
                        # toLowerCase(unifiedGroceryList[c][j].text)

\* C4 witness: the tasks "Milk" then "milk" of one grocery note gave one dairy
\* item, which has been toggled.
C4_Witness ==
    /\ Len(notes) = 1
    /\ notes[1].category = "grocery"
    /\ Len(notes[1].tasks) = 2
    /\ notes[1].tasks[1].text = "Milk" /\ notes[1].tasks[2].text = "milk"
    /\ DOMAIN unifiedGroceryList = {"dairy"}
    /\ Len(unifiedGroceryList["dairy"]) = 1
    /\ Toggled

\* The lists the state's list may have been before a run of the builder.
AllDone(list) == [c \in DOMAIN list |-> [i \in 1..Len(list[c]) |-> [list[c][i] EXCEPT !.done = TRUE]]]
PreviousLists ==
    {unifiedGroceryList, groceryItems, AllDone(unifiedGroceryList), <<>>,
     [c \in {"other"} |-> <<[text |-> "Milk", done |-> TRUE]>>]}

\* Run on the notes of the state, the builder gives the mapping its latest run
\* gave, whatever list it finds as the previous one.
C5_FromAnyPreviousList ==
    \A previous \in PreviousLists :
        buildUnifiedGroceryList(notes, previous) = groceryItems

\* A handleExtractTasks of the first variant that ends with the notes it began
\* with (setNotes([...notes]), no group suggested) runs the builder again: the
\* list becomes what the run before it gave, also when items were toggled.
C5_RebuiltOnSameNotes ==
    (variant = 1 /\ isLoading /\ ~isLoading' /\ notes' = notes)
        => (groceryItems' = groceryItems /\ unifiedGroceryList' = groceryItems)

\* C5: run again on the same notes, the builder gives the identical mapping
\* (same keys, same items in the same order), whatever the list in the state
\* was before the run.
C5_SameNotesSameList ==
    [](C5_FromAnyPreviousList) /\ [][C5_RebuiltOnSameNotes]_vars

\* C5 witness: a list with items that toggleGroceryItemDone has changed since
\* it was built.
C5_Witness ==
    /\ Toggled
    /\ Occurrences # {}
    /\ buildUnifiedGroceryList(notes, unifiedGroceryList) # unifiedGroceryList

\* C6: each item of the built list is the item of the first occurrence of its
\* name in the processing order; a later occurrence changes nothing.
C6_FirstOccurrenceWins ==
    /\ \A pl \in PlacesOf(groceryItems) :
        LET it == groceryItems[pl[1]][pl[2]]
        IN  /\ OccurrencesNamed(it.text) # {}
            /\ it = OccItem(FirstOf(OccurrencesNamed(it.text)))
    /\ \A o \in Occurrences : Cardinality(PlacesNamed(groceryItems, OccText(o))) = 1

\* C6 witness: a name occurs twice, the later occurrence standing for another
\* item (other done value or provenance) than the first.
C6_Witness ==
    \E o, p \in Occurrences :
        /\ Earlier(o, p)
        /\ toLowerCase(OccText(o)) = toLowerCase(OccText(p))
        /\ OccItem(o) # OccItem(p)
        /\ OccItem(p).done
        /\ o = FirstOf(OccurrencesNamed(OccText(o)))

\* The places <<category, index>> of GroceryManager's list that hold a name,
\* compared lower-cased, and the names a prop value hands in.
ManagerPlaces(data) ==
    UNION {{<<c, i>> : i \in 1..Len(data[c])} : c \in DOMAIN data}
ManagerPlacesNamed(data, name) ==
    {pl \in ManagerPlaces(data) : toLowerCase(data[pl[1]][pl[2]].name) = toLowerCase(name)}
NamesHandedIn(groups) ==
    UNION {{groups[g].items[k].name : k \in 1..Len(groups[g].items)} : g \in 1..Len(groups)}

\* In the unified list: two occurrences share one entry exactly when their
\* names are equal lower-cased.
C7_InUnifiedList ==
    \A o, p \in Occurrences :
        /\ Cardinality(PlacesNamed(groceryItems, OccText(o))) = 1
        /\ (toLowerCase(OccText(o)) = toLowerCase(OccText(p)))
               <=> (PlacesNamed(groceryItems, OccText(o)) = PlacesNamed(groceryItems, OccText(p)))
        /\ (/\ Trim(OccText(o)) = Trim(OccText(p))
            /\ OccText(o) # OccText(p))
               => PlacesNamed(groceryItems, OccText(o)) # PlacesNamed(groceryItems, OccText(p))

\* In a step of addItemsFromVoiceOrNote: a name handed in gets one entry when
\* no entry had its lower-cased name, and none otherwise; the list grows by
\* the number of new lower-cased names.
C7_InGroceryManager ==
    initialItems' # initialItems =>
        LET names == NamesHandedIn(initialItems')
            new == {toLowerCase(n) : n \in {m \in names : ManagerPlacesNamed(groceryData, m) = {}}}
        IN  /\ \A n \in names :
                Cardinality(ManagerPlacesNamed(groceryData', n))
                    = IF ManagerPlacesNamed(groceryData, n) = {} THEN 1
                      ELSE Cardinality(ManagerPlacesNamed(groceryData, n))
            /\ Cardinality(ManagerPlaces(groceryData'))
                    = Cardinality(ManagerPlaces(groceryData)) + Cardinality(new)

\* C7 (as amended): the identity of an item is its lower-cased name, not
\* trimmed: in buildUnifiedGroceryList and in addItemsFromVoiceOrNote, names
\* that are equal lower-cased share one entry, and names that differ in leading
\* or trailing whitespace get an entry each.
C7_IdentityIsLowerCasedName ==
    [](C7_InUnifiedList) /\ [][C7_InGroceryManager]_vars

\* C7 witness: two names equal up to case and a trailing blank, with an entry
\* each.
C7_Witness ==
    \E o, p \in Occurrences :
        /\ OccText(o) # OccText(p)
        /\ Trim(toLowerCase(OccText(o))) = Trim(toLowerCase(OccText(p)))
        /\ PlacesNamed(groceryItems, OccText(o)) # PlacesNamed(groceryItems, OccText(p))
        /\ Cardinality(PlacesOf(groceryItems)) = 2

\* C7 as stated: names that are equal when lower-cased and trimmed share one
\* entry.
C7_Original ==
    \A o, p \in Occurrences :
        Trim(toLowerCase(OccText(o))) = Trim(toLowerCase(OccText(p)))
            => /\ PlacesNamed(groceryItems, OccText(o)) = PlacesNamed(groceryItems, OccText(p))
               /\ Cardinality(PlacesNamed(groceryItems, OccText(o))) = 1

\* C8: the list, as built and after toggles, has food categories as keys and
\* no empty item list; a category is a key exactly when an occurrence was
\* categorized into it.
C8_OnlyFilledCategories ==
    /\ DOMAIN unifiedGroceryList = DOMAIN groceryItems
    /\ DOMAIN groceryItems \subseteq FoodCategorySet
    /\ \A c \in DOMAIN groceryItems :
        Len(groceryItems[c]) > 0 /\ Len(unifiedGroceryList[c]) > 0
    /\ \A c \in FoodCategorySet :
        c \in DOMAIN groceryItems
            <=> \E o \in Occurrences : categorizeFoodItem(OccText(o)) = c

\* C8 witness: items in dairy and in meat, and no other key.
C8_Witness ==
    /\ DOMAIN unifiedGroceryList = {"dairy", "meat"}
    /\ Len(notes) = 2

\* C9: an item of the built list with a source tag is not done and names a
\* recipe note holding it as an ingredient; an item without one has the text
\* and done value of a task of a grocery/shopping note. The item is tagged
\* exactly when the first occurrence of its name is an ingredient.
C9_DoneAndSource ==
    \A pl \in PlacesOf(groceryItems) :
        LET it == groceryItems[pl[1]][pl[2]]
            tagged == "recipeSource" \in DOMAIN it
        IN  /\ tagged =>
                /\ it.done = FALSE
                /\ \E o \in Occurrences :
                    o[2] = 1 /\ OccText(o) = it.text /\ notes[o[1]].title = it.recipeSource
            /\ ~tagged =>
                \E o \in Occurrences :
                    /\ o[2] = 2 /\ OccText(o) = it.text
                    /\ notes[o[1]].tasks[o[3]].done = it.done
            /\ tagged <=> (FirstOf(OccurrencesNamed(it.text))[2] = 1)

\* C9 witness: an item from a recipe ingredient and a done item from a task.
C9_Witness ==
    \E pl, pm \in PlacesOf(groceryItems) :
        /\ "recipeSource" \in DOMAIN groceryItems[pl[1]][pl[2]]
        /\ "recipeSource" \notin DOMAIN groceryItems[pm[1]][pm[2]]
        /\ groceryItems[pm[1]][pm[2]].done

\* C10: the names in the list are the names of the ingredients of recipe
\* notes and of the tasks of notes whose category is grocery or shopping in
\* any letter case; a task of another note is in the list only under a name
\* that one of those has too.
C10_OnlyRecipesAndShoppingNotes ==
    /\ \A pl \in PlacesOf(unifiedGroceryList) :
        \E o \in Occurrences : OccText(o) = unifiedGroceryList[pl[1]][pl[2]].text
    /\ \A o \in Occurrences : PlacesNamed(unifiedGroceryList, OccText(o)) # {}
    /\ \A n \in 1..Len(notes) :
        toLowerCase(notes[n].category) \notin {"grocery", "shopping"} =>
            \A k \in 1..Len(notes[n].tasks) :
                OccurrencesNamed(notes[n].tasks[k].text) = {}
                    => PlacesNamed(unifiedGroceryList, notes[n].tasks[k].text) = {}

\* C10 witness: a "Shopping" note whose task is in the list beside a note of
\* another category whose task is not.
C10_Witness ==
    \E n, m \in 1..Len(notes) :
        /\ notes[n].category = "Shopping" /\ Len(notes[n].tasks) = 1
        /\ notes[m].category \in {"work", "general"} /\ Len(notes[m].tasks) = 1
        /\ PlacesNamed(unifiedGroceryList, notes[n].tasks[1].text) # {}
        /\ PlacesNamed(unifiedGroceryList, notes[m].tasks[1].text) = {}

(***************************************************************************)
(* ContentTypeDetector: JSON texts and payloads                            *)
(***************************************************************************)
\* The property names of the payloads, in the order JSON.stringify writes them.
KeyOrder ==
    <<"tasks", "noteGroups", "intent", "reason", "reasoning", "categories",
      "produce", "dairy", "meat", "bakery", "pantry", "other",
      "title", "ingredients", "instructions", "prepTime", "cookTime", "servings",
      "content", "text", "done", "category", "name", "quantity", "taskIndices",
      "action", "contentType", "confidence", "enhancedText", "mealPlan">>

\* JSON.stringify(v) of a value that holds no undefined (compact form; the
\* strings of the payloads need no escaping).
RECURSIVE Stringify(_), StringifyItems(_, _), StringifyFields(_, _, _)
Stringify(v) ==
    CASE v.type = "null" -> "null"
      [] v.type = "boolean" -> (IF v.b THEN "true" ELSE "false")
      [] v.type = "number" -> ToString(v.n)
      [] v.type = "string" -> "\"" \o v.s \o "\""
      [] v.type = "array" -> "[" \o StringifyItems(v.items, 1) \o "]"
      [] v.type = "object" -> "{" \o StringifyFields(v.fields, 1, TRUE) \o "}"
StringifyItems(items, i) ==
    IF i > Len(items) THEN ""
    ELSE (IF i > 1 THEN "," ELSE "") \o Stringify(items[i]) \o StringifyItems(items, i + 1)
StringifyFields(fields, k, first) ==
    IF k > Len(KeyOrder) THEN ""
    ELSE IF KeyOrder[k] \in DOMAIN fields
         THEN (IF first THEN "" ELSE ",") \o "\"" \o KeyOrder[k] \o "\":"
              \o Stringify(fields[KeyOrder[k]]) \o StringifyFields(fields, k + 1, FALSE)
         ELSE StringifyFields(fields, k + 1, first)

\* Tasks, a note group and a grocery item as the gateway functions return them.
Task1 == Obj([text |-> Str("buy milk"), done |-> Bool(FALSE)])
Task2 == Obj([text |-> Str("call mom"), done |-> Bool(TRUE), category |-> Str("work")])
TaskOfNulls == Obj([text |-> Null, done |-> Null])
TextOnly == Obj([text |-> Str("buy milk")])
NoteGroup(title, indices) ==
    Obj([title |-> Str(title), category |-> Str("personal"),
         taskIndices |-> Arr([i \in 1..Len(indices) |-> Num(indices[i])])])
Apple == Obj([name |-> Str("apple"), quantity |-> Str("1"), done |-> Bool(FALSE)])

\* The safe defaults the gateway functions return when they fail.
DefaultTaskExtraction ==
    Obj([tasks |-> Arr(<<>>), intent |-> Str("new"), reason |-> Str("Error processing text")])
DefaultCategorization ==
    Obj([tasks |-> Arr(<<>>), noteGroups |-> Arr(<<>>),
         reasoning |-> Str("Error processing text")])
DefaultGroceryList ==
    Obj([categories |-> Obj([produce |-> Arr(<<>>), dairy |-> Arr(<<>>), meat |-> Arr(<<>>),
                             bakery |-> Arr(<<>>), pantry |-> Arr(<<>>), other |-> Arr(<<>>)])])
\* title: title || 'Recipe'
DefaultRecipe(recipeName) ==
    Obj([title |-> Str(IF recipeName = "" THEN "Recipe" ELSE recipeName),
         ingredients |-> Arr(<<>>), instructions |-> Arr(<<>>),
         prepTime |-> Str("30 mins"), cookTime |-> Str("45 mins"), servings |-> Num(4)])
SafeDefaults ==
    {DefaultTaskExtraction, DefaultCategorization, DefaultGroceryList,
     DefaultRecipe(""), DefaultRecipe("Soup")}

\* Two sets of properties put into one object.
Merge(f, g) ==
    [k \in DOMAIN f \cup DOMAIN g |-> IF k \in DOMAIN f THEN f[k] ELSE g[k]]

\* What an object payload may hold of each group of properties (<<>>: none).
TasksOptions == {<<>>, [tasks |-> Arr(<<>>)], [tasks |-> Arr(<<Task2>>)]}
IntentOptions == {<<>>, [intent |-> Str("new"), reason |-> Str("x")], [intent |-> Str("")]}
GroupsOptions ==
    {<<>>, [noteGroups |-> Arr(<<>>)], [noteGroups |-> Arr(<<NoteGroup("Errands", <<0>>)>>)]}
GroceryKeys == {"produce", "dairy", "meat", "bakery", "pantry", "other"}
CategoriesOptions ==
    {<<>>, [categories |-> Obj(<<>>)], [categories |-> Null],
     [categories |-> DefaultGroceryList.fields.categories]}
    \cup {[categories |-> Obj([k \in {key} |-> Arr(<<Apple>>)])] : key \in GroceryKeys}
RecipeOptions ==
    {<<>>, [title |-> Str("Soup")],
     [title |-> Str("Soup"), ingredients |-> Arr(<<Str("water")>>),
      instructions |-> Arr(<<>>)]}
ContentOptions == {<<>>, [content |-> Str("body")], [content |-> Str("")], [content |-> Num(42)]}

ObjectPayloads ==
    {Obj(Merge(t, Merge(i, Merge(g, Merge(c, Merge(r, b)))))) :
        t \in TasksOptions, i \in IntentOptions, g \in GroupsOptions,
        c \in CategoriesOptions, r \in RecipeOptions, b \in ContentOptions}

\* Payloads of tasks and note groups; the indices are JavaScript's, from 0.
TaskArrays == SeqsUpTo({Task1, Task2}, MaxTasks)
TaskIndexLists == SeqsUpTo({0, 1, MaxTasks + 3}, MaxIndices)
GroupArrays ==
    SeqsUpTo({NoteGroup("Errands", ix) : ix \in TaskIndexLists}, MaxGroups)
GroupedPayloads ==
    {Obj([tasks |-> Arr(ts), noteGroups |-> Arr(gs)]) : ts \in TaskArrays, gs \in GroupArrays}

ArrayPayloads ==
    {Arr(<<>>), Arr(<<Null>>), Arr(<<Str("x")>>), Arr(<<TextOnly>>), Arr(<<TaskOfNulls>>),
     Arr(<<Task1>>), Arr(<<Task2, Task1>>), Arr(<<Task1, Null>>)}
Primitives == {Null, Undefined, Str(""), Num(0), Num(42), Bool(FALSE), Bool(TRUE)}

\* The values whose JSON texts are payloads too, and texts that are no JSON.
TextValues ==
    SafeDefaults \cup ArrayPayloads
    \cup {Null, Num(42), Bool(TRUE), Str("hello"), Str(""), Obj(<<>>),
          Obj([content |-> Str("body"), title |-> Str("Soup")]),
          Obj([tasks |-> Arr(<<Task1>>), intent |-> Str("new"), reason |-> Str("x")]),
          Obj([tasks |-> Arr(<<Task2>>), intent |-> Str("append"),
               noteGroups |-> Arr(<<NoteGroup("Errands", <<0>>)>>)]),
          Obj([categories |-> Obj([produce |-> Arr(<<Apple>>)]), title |-> Str("Soup"),
               ingredients |-> Arr(<<>>), instructions |-> Arr(<<>>)]),
          Obj([action |-> Str("append"), reason |-> Str("x")]),
          Obj([contentType |-> Str("recipe"), confidence |-> Num(1), reasoning |-> Str("x")]),
          Obj([enhancedText |-> Str("2 lb beef"), mealPlan |-> Str("stew")])}
PlainTexts == {"just some plain text", "{tasks: none"}

\* JSON.parse over the texts of the model: the value a text is the JSON of.
ParseTable ==
    [t \in {Stringify(v) : v \in TextValues} |->
        CHOOSE v \in TextValues : Stringify(v) = t]
IsJSON(text) == text \in DOMAIN ParseTable
JSONParse(text) == ParseTable[text]

Payloads ==
    ObjectPayloads \cup GroupedPayloads \cup ArrayPayloads \cup Primitives
    \cup {Str(t) : t \in DOMAIN ParseTable \cup PlainTexts}
Titles == {Undefined, Str("My note")}

\* The render of ContentTypeDetector with the props content and title.
DetectorInit ==
    /\ variant = 4
    /\ CatIdle
    /\ ScreenIdle
    /\ ManagerIdle
    /\ content \in Payloads
    /\ contentTitle \in Titles
    /\ dpc = "start"
    /\ parsedContent = Undefined
    /\ evaluated = {}
    /\ error = Undefined
    /\ view = Undefined
    /\ rendered = Undefined
    /\ ServiceIdle

(***************************************************************************)
(* TaskList: what it shows                                                 *)
(***************************************************************************)
\* tasks[index] for a JavaScript index.
ItemAt(items, index) ==
    IF index >= 0 /\ index < Len(items) THEN items[index + 1] ELSE Undefined

\* group.taskIndices.includes(index)
GroupIncludes(group, index) ==
    \E k \in 1..Len(Get(group, "taskIndices").items) :
        Get(group, "taskIndices").items[k] = Num(index)

\* noteGroups.some(group => group.taskIndices.includes(index))
InSomeGroup(groups, index) ==
    \E g \in 1..Len(groups) : GroupIncludes(groups[g], index)

\* The indices of a list for which keep holds, in order.
RECURSIVE KeptIndices(_, _, _)
KeptIndices(indices, keep(_), i) ==
    IF i > Len(indices) THEN <<>>
    ELSE (IF keep(indices[i]) THEN <<indices[i]>> ELSE <<>>)
         \o KeptIndices(indices, keep, i + 1)

AllIndices(items) == [i \in 1..Len(items) |-> i - 1]

\* group.taskIndices.map(taskIndex => tasks[taskIndex] ? <TaskItem/> : null)
GroupSection(group, items) ==
    LET indices == [k \in 1..Len(Get(group, "taskIndices").items) |->
                        Get(group, "taskIndices").items[k].n]
        Shown(index) == Truthy(ItemAt(items, index))
    IN  [title |-> Get(group, "title"), shown |-> KeptIndices(indices, Shown, 1)]

\* The bug "tasks of no group are not rendered".
OtherSectionsNone(groups, items) == <<>>

\* The "Other Tasks" group, when a task is in no group.
OtherSections(groups, items) ==
    LET Ungrouped(index) == ~InSomeGroup(groups, index)
        shown == KeptIndices(AllIndices(items), Ungrouped, 1)
    IN  IF Len(shown) > 0 THEN <<[title |-> Str("Other Tasks"), shown |-> shown]>>
        ELSE <<>>

\* const category = task.category || 'Other'
CategoryOf(task) ==
    IF Truthy(Get(task, "category")) THEN Get(task, "category") ELSE Str("Other")

\* Object.entries(categorized): the categories in the order of their first task.
RECURSIVE CategoriesInOrder(_, _)
CategoriesInOrder(items, i) ==
    IF i > Len(items) THEN <<>>
    ELSE LET rest == CategoriesInOrder(items, i + 1)
             Other(c) == c # CategoryOf(items[i])
         IN  <<CategoryOf(items[i])>> \o SelectSeq(rest, Other)

CategorySection(cat, items) ==
    LET InCategory(index) == CategoryOf(ItemAt(items, index)) = cat
    IN  [title |-> cat, shown |-> KeptIndices(AllIndices(items), InCategory, 1)]

\* TaskItem({task}) reads task.done, task.text and task.category.
TaskItemThrows(task) == ThrowsOnRead(task)

\* The render throws on a task that is null: in the "Other Tasks" group its
\* TaskItem does, elsewhere task.category or its TaskItem does (a null task
\* of a group is skipped by if (!task) return null).
TaskListThrows(items, groups, grouped) ==
    \E i \in 1..Len(items) :
        /\ TaskItemThrows(items[i])
        /\ grouped => ~InSomeGroup(groups, i - 1)

\* TaskList({tasks, noteGroups, showCategories}): the mode it renders in and
\* its sections, each a heading and the indices of the tasks shown under it.
TaskList(tasks, noteGroups, showCategories) ==
    IF ~Truthy(tasks) \/ Len(tasks.items) = 0
    THEN [mode |-> "empty", sections |-> <<>>]
    ELSE IF LET grouped == Truthy(noteGroups) /\ Len(noteGroups.items) > 0 /\ showCategories
            IN  TaskListThrows(tasks.items, IF grouped THEN noteGroups.items ELSE <<>>, grouped)
    THEN [mode |-> "throws", sections |-> <<>>]
    ELSE IF Truthy(noteGroups) /\ Len(noteGroups.items) > 0 /\ showCategories
    THEN [mode |-> "groups",
          sections |->
              [g \in 1..Len(noteGroups.items) |-> GroupSection(noteGroups.items[g], tasks.items)]
              \o OtherSections(noteGroups.items, tasks.items)]
    ELSE IF showCategories
            /\ \E i \in 1..Len(tasks.items) : Truthy(Get(tasks.items[i], "category"))
    THEN LET cats == CategoriesInOrder(tasks.items, 1)
         IN  [mode |-> "categories",
              sections |-> [c \in 1..Len(cats) |-> CategorySection(cats[c], tasks.items)]]
    ELSE [mode |-> "flat",
          sections |-> <<[title |-> Undefined, shown |-> AllIndices(tasks.items)]>>]

(***************************************************************************)
(* ContentTypeDetector: the conditions and the statements                  *)
(***************************************************************************)
\* a || b
OrElse(a, b) == IF Truthy(a) THEN a ELSE b

\* CASE 1: parsedContent.tasks && Array.isArray(parsedContent.tasks) && parsedContent.intent
IsTaskExtraction(p) ==
    Truthy(Get(p, "tasks")) /\ IsArray(Get(p, "tasks")) /\ Truthy(Get(p, "intent"))

\* CASE 2: tasks and noteGroups, both arrays.
IsCategorizedTasks(p) ==
    /\ Truthy(Get(p, "tasks")) /\ IsArray(Get(p, "tasks"))
    /\ Truthy(Get(p, "noteGroups")) /\ IsArray(Get(p, "noteGroups"))

\* CASE 3: a categories object with produce, dairy or pantry.
IsGroceryList(p) ==
    /\ Truthy(Get(p, "categories")) /\ TypeOf(Get(p, "categories")) = "object"
    /\ \/ Truthy(Get(Get(p, "categories"), "produce"))
       \/ Truthy(Get(Get(p, "categories"), "dairy"))
       \/ Truthy(Get(Get(p, "categories"), "pantry"))

\* CASE 4: title, and ingredients and instructions, both arrays.
IsRecipe(p) ==
    /\ Truthy(Get(p, "title"))
    /\ Truthy(Get(p, "ingredients")) /\ IsArray(Get(p, "ingredients"))
    /\ Truthy(Get(p, "instructions")) /\ IsArray(Get(p, "instructions"))

\* CASE 5: reading parsedContent[0].text throws when the first element of a
\* non-empty array is null or undefined.
SimpleTaskListThrows(p) ==
    IsArray(p) /\ Len(p.items) > 0 /\ ThrowsOnRead(p.items[1])
IsSimpleTaskList(p) ==
    /\ IsArray(p) /\ Len(p.items) > 0
    /\ Get(p.items[1], "text") # Undefined
    /\ Get(p.items[1], "done") # Undefined

\* CASE 6: typeof parsedContent === 'string' && parsedContent.length > 0
IsEnhancedText(p) == TypeOf(p) = "string" /\ Len(p.s) > 0

\* CASE 7: parsedContent.content && typeof parsedContent.content === 'string'
HasContentField(p) ==
    Truthy(Get(p, "content")) /\ TypeOf(Get(p, "content")) = "string"

\* The elements returned. The error and unknown elements show their payload
\* as String(x), or JSON.stringify(x, null, 2) of an object; the value shown is
\* kept here, not its text.
EmptyElement == [view |-> "empty"]
\* The bug "the note is rendered without its title".
NoteElementUntitled(body, noteTitle) ==
    [view |-> "note", content |-> body, title |-> Undefined]
NoteElement(body, noteTitle) == [view |-> "note", content |-> body, title |-> noteTitle]
TaskListElement(taskArray, noteGroups, showCategories) ==
    [view |-> "taskList", tasks |-> taskArray, noteGroups |-> noteGroups,
     showCategories |-> showCategories]
GroceryListElement(data) == [view |-> "groceryList", data |-> data]
RecipeElement(recipe) == [view |-> "recipe", recipe |-> recipe]
UnknownElement(heading, shown) == [view |-> "unknown", title |-> heading, shown |-> shown]
\* The bug "the error element shows the message only".
ErrorElementWithoutRaw(caught, raw) ==
    [view |-> "error", message |-> caught.message, raw |-> ""]
ErrorElement(caught, raw) == [view |-> "error", message |-> caught.message, raw |-> raw]

\* The elements of the CASEs; CASE 7 takes the title of the payload first.
\* The bug "CASE 1 hands the note groups on and leaves showCategories alone".
TaskExtractionElementGrouped(p) == TaskListElement(Get(p, "tasks"), Get(p, "noteGroups"), TRUE)
TaskExtractionElement(p) == TaskListElement(Get(p, "tasks"), Undefined, FALSE)
CategorizedTasksElement(p) == TaskListElement(Get(p, "tasks"), Get(p, "noteGroups"), TRUE)
\* The bug "CASE 5 turns the categories off".
SimpleTaskListElementFlat(p) == TaskListElement(p, Undefined, FALSE)
SimpleTaskListElement(p) == TaskListElement(p, Undefined, TRUE)
\* The bug "CASE 7 takes the given title first".
ContentFieldElementGivenFirst(p, givenTitle) ==
    NoteElement(Get(p, "content"), OrElse(givenTitle, Get(p, "title")))
ContentFieldElement(p, givenTitle) ==
    NoteElement(Get(p, "content"), OrElse(Get(p, "title"), givenTitle))

\* return <...>: the component is done, its TaskList child renders next.
Return(element) ==
    /\ view' = element
    /\ dpc' = (IF element.view = "taskList" THEN "render" ELSE "done")

DetectorOthers == <<variant, catVars, screenVars, managerVars, serviceVars, content, contentTitle>>

\* if (!content) return <No content to display>
CheckContent ==
    /\ dpc = "start"
    /\ IF ~Truthy(content)
       THEN Return(EmptyElement)
       ELSE dpc' = "tryParse" /\ view' = view
    /\ UNCHANGED <<DetectorOthers, parsedContent, evaluated, error, rendered>>

\* if (typeof content === 'string') try { JSON.parse(content) } catch { return <NoteView/> }
TryParse ==
    /\ dpc = "tryParse"
    /\ IF TypeOf(content) = "string"
       THEN /\ evaluated' = evaluated \cup {"parse"}
            /\ IF IsJSON(content.s)
               THEN dpc' = "parse" /\ view' = view
               ELSE Return(NoteElement(content, contentTitle))
       ELSE dpc' = "parse" /\ UNCHANGED <<evaluated, view>>
    /\ UNCHANGED <<DetectorOthers, parsedContent, error, rendered>>

\* const parsedContent = typeof content === 'string' ? JSON.parse(content) : content
ParseContent ==
    /\ dpc = "parse"
    /\ parsedContent' = (IF TypeOf(content) = "string" THEN JSONParse(content.s) ELSE content)
    /\ dpc' = "case1"
    /\ UNCHANGED <<DetectorOthers, evaluated, error, view, rendered>>

\* One if of the try block: its condition throws, holds, or fails.
CaseStep(here, throws, holds, element, next) ==
    /\ dpc = here
    /\ evaluated' = evaluated \cup {here}
    /\ IF throws
       THEN /\ dpc' = "catch"
            /\ error' = [name |-> "TypeError", message |-> "TypeError in " \o here]
            /\ view' = view
       ELSE /\ error' = error
            /\ IF holds THEN Return(element) ELSE dpc' = next /\ view' = view
    /\ UNCHANGED <<DetectorOthers, parsedContent, rendered>>

Case1 ==
    CaseStep("case1", ThrowsOnRead(parsedContent), IsTaskExtraction(parsedContent),
             TaskExtractionElement(parsedContent), "case2")
Case2 ==
    CaseStep("case2", FALSE, IsCategorizedTasks(parsedContent),
             CategorizedTasksElement(parsedContent), "case3")
Case3 ==
    CaseStep("case3", FALSE, IsGroceryList(parsedContent),
             GroceryListElement(parsedContent), "case4")
Case4 ==
    CaseStep("case4", FALSE, IsRecipe(parsedContent), RecipeElement(parsedContent), "case5")
Case5 ==
    CaseStep("case5", SimpleTaskListThrows(parsedContent), IsSimpleTaskList(parsedContent),
             SimpleTaskListElement(parsedContent), "case6")
Case6 ==
    CaseStep("case6", FALSE, IsEnhancedText(parsedContent),
             NoteElement(parsedContent, contentTitle), "case7")
Case7 ==
    CaseStep("case7", FALSE, HasContentField(parsedContent),
             ContentFieldElement(parsedContent, contentTitle), "case8")

\* typeof v === 'object' ? JSON.stringify(v, null, 2) : String(v), of a value
\* that is not undefined (without the indentation of the text).
ShownText(v) == IF v.type = "string" THEN v.s ELSE Stringify(v)

\* CASE 8: unknown format, shown under title || 'Content'.
Case8 ==
    /\ dpc = "case8"
    /\ Return(UnknownElement(OrElse(contentTitle, Str("Content")), ShownText(parsedContent)))
    /\ UNCHANGED <<DetectorOthers, parsedContent, evaluated, error, rendered>>

\* catch (error) { return <Error rendering content: {error.message} ...raw content> }
Catch ==
    /\ dpc = "catch"
    /\ Return(ErrorElement(error, ShownText(content)))
    /\ UNCHANGED <<DetectorOthers, parsedContent, evaluated, error, rendered>>

\* The TaskList of the returned element renders.
RenderTaskList ==
    /\ dpc = "render"
    /\ rendered' = TaskList(view.tasks, view.noteGroups, view.showCategories)
    /\ dpc' = "done"
    /\ UNCHANGED <<DetectorOthers, parsedContent, evaluated, error, view>>

DetectorNext ==
    \/ CheckContent
    \/ TryParse
    \/ ParseContent
    \/ Case1
    \/ Case2
    \/ Case3
    \/ Case4
    \/ Case5
    \/ Case6
    \/ Case7
    \/ Case8
    \/ Catch
    \/ RenderTaskList

SpecDetector == DetectorInit /\ [][DetectorNext]_vars

(***************************************************************************)
(* Claims about ContentTypeDetector (checked under SpecDetector)           *)
(***************************************************************************)
Returned == dpc = "done"

\* The payload as the shape steps see it: parsed when it was a JSON text.
Seen == parsedContent

\* The steps of the decision order, as they are stated: which steps a seen
\* payload satisfies.
HasArray(p, k) == p.type = "object" /\ k \in DOMAIN p.fields /\ p.fields[k].type = "array"
HasField(p, k) == p.type = "object" /\ k \in DOMAIN p.fields
StatedStep(k, p) ==
    CASE k = 3 -> HasArray(p, "tasks") /\ HasField(p, "intent") /\ Truthy(p.fields["intent"])
      [] k = 4 -> HasArray(p, "tasks") /\ HasArray(p, "noteGroups")
      [] k = 5 -> /\ HasField(p, "categories")
                  /\ p.fields["categories"].type = "object"
                  /\ DOMAIN p.fields["categories"].fields \cap GroceryKeys # {}
      [] k = 6 -> /\ HasField(p, "title") /\ Truthy(p.fields["title"])
                  /\ HasArray(p, "ingredients") /\ HasArray(p, "instructions")
      [] k = 7 -> /\ p.type = "array" /\ Len(p.items) > 0
                  /\ p.items[1].type = "object"
                  /\ {"text", "done"} \subseteq DOMAIN p.items[1].fields
      [] k = 8 -> p.type = "string" /\ p.s # ""
      [] k = 9 -> /\ HasField(p, "content")
                  /\ p.fields["content"].type = "string" /\ p.fields["content"].s # ""
      [] k = 10 -> TRUE
FirstStatedStep(p) == MinOf({k \in 3..10 : StatedStep(k, p)})

\* The step whose shape the returned element has.
StepOfView ==
    CASE view.view = "taskList" ->
            (IF ~view.showCategories THEN 3
             ELSE IF view.noteGroups # Undefined THEN 4 ELSE 7)
      [] view.view = "groceryList" -> 5
      [] view.view = "recipe" -> 6
      [] view.view = "note" -> (IF parsedContent.type = "string" THEN 8 ELSE 9)
      [] view.view = "unknown" -> 10
      [] OTHER -> 0

\* C11: a payload that reaches the shape steps without an error is given the
\* shape of the earliest step it satisfies, in the order tasks+intent,
\* tasks+noteGroups, grocery categories, recipe, task array, string note,
\* content-field note, unknown.
C11_EarliestStepWins ==
    (Returned /\ "case1" \in evaluated /\ view.view # "error")
        => StepOfView = FirstStatedStep(Seen)

\* C13: a payload matching no earlier step whose categories object holds one
\* of produce, dairy, meat, bakery, pantry, other is the grocery categories
\* shape, whichever of the keys it is.
C13_AnyGroceryKey ==
    \A key \in GroceryKeys :
        (/\ Returned /\ "case3" \in evaluated
         /\ HasField(Seen, "categories")
         /\ Seen.fields["categories"].type = "object"
         /\ key \in DOMAIN Seen.fields["categories"].fields)
            => view.view = "groceryList"

\* The payloads on which a condition of the try block throws: the JSON text
\* null, and an array (or its JSON text) whose first element is null.
ThrowingPayloads ==
    {Str("null"), Arr(<<Null>>), Str("[null]")}
Views == {"empty", "note", "taskList", "groceryList", "recipe", "unknown", "error"}

\* C12: every run of the detector goes on until it has returned an element;
\* what a condition throws is caught, and the element returned then carries
\* the message of the error and the payload as it was given.
C12_ErrorsAreCaught ==
    /\ ~Returned => ENABLED DetectorNext
    /\ Returned => view.view \in Views
    /\ (Returned /\ error # Undefined) =>
            view = [view |-> "error", message |-> error.message,
                    raw |-> IF content.type = "string" THEN content.s ELSE Stringify(content)]
    /\ (Returned /\ content \in ThrowingPayloads) => (view.view = "error" /\ error # Undefined)
    /\ (Returned /\ view.view = "error") => error # Undefined

\* C12 witness: the JSON text null has given the error element.
C12_Witness ==
    /\ Returned
    /\ content = Str("null")
    /\ view.view = "error"
    /\ view.raw = "null"

\* C14: each safe default of the gateway functions, as an object or as its
\* JSON text, is given its regular shape: the flat task list, the grouped
\* task list, the grocery categories, the recipe.
C14_SafeDefaultsAreRegular ==
    \A form \in {"object", "text"} :
        LET Given(v) == content = (IF form = "object" THEN v ELSE Str(Stringify(v)))
        IN  /\ (Returned /\ Given(DefaultTaskExtraction)) =>
                    (view.view = "taskList" /\ ~view.showCategories
                     /\ view.noteGroups = Undefined /\ view.tasks = Arr(<<>>))
            /\ (Returned /\ Given(DefaultCategorization)) =>
                    (view.view = "taskList" /\ view.showCategories
                     /\ view.noteGroups = Arr(<<>>) /\ view.tasks = Arr(<<>>))
            /\ (Returned /\ Given(DefaultGroceryList)) =>
                    (view.view = "groceryList" /\ view.data = DefaultGroceryList)
            /\ \A recipeName \in {"", "Soup"} :
                (Returned /\ Given(DefaultRecipe(recipeName))) =>
                    (view.view = "recipe" /\ view.recipe = DefaultRecipe(recipeName))

\* C14 witness: the JSON text of the six empty categories has given the
\* grocery list.
C14_Witness ==
    /\ Returned
    /\ content = Str(Stringify(DefaultGroceryList))
    /\ view.view = "groceryList"

\* C17: a string payload that is no JSON text is the note whose body is that
\* string, with the title given, and no condition of the try block is
\* evaluated for it.
C17_PlainTextIsNote ==
    (Returned /\ content.type = "string" /\ content.s \in PlainTexts) =>
        /\ view = [view |-> "note", content |-> content, title |-> contentTitle]
        /\ evaluated = {"parse"}
        /\ parsedContent = Undefined

\* C17 witness: a plain text with a title has given a note.
C17_Witness ==
    /\ Returned
    /\ content = Str("just some plain text")
    /\ contentTitle = Str("My note")
    /\ view.view = "note"

\* C20: a null, undefined or empty-string payload is the empty result, with
\* any title, and nothing is parsed or tested for it.
C20_EmptyPayload ==
    (content \in {Null, Undefined, Str("")}) =>
        /\ dpc \in {"start", "done"}
        /\ evaluated = {}
        /\ parsedContent = Undefined
        /\ Returned => view = [view |-> "empty"]

\* C20 witness: the empty string with a title has given the empty result.
C20_Witness ==
    /\ Returned
    /\ content = Str("")
    /\ contentTitle = Str("My note")
    /\ view.view = "empty"

\* What the flat rendering of a task array shows: every task once, in order,
\* under no heading; the empty array shows "No tasks yet".
FlatRendering(taskArray) ==
    IF Len(taskArray.items) = 0 THEN [mode |-> "empty", sections |-> <<>>]
    ELSE [mode |-> "flat",
          sections |-> <<[title |-> Undefined,
                          shown |-> [i \in 1..Len(taskArray.items) |-> i - 1]]>>]

\* The flat task list of a payload: its tasks, no groups, showCategories=false.
IsFlatTaskListOf(p) ==
    /\ view = [view |-> "taskList", tasks |-> p.fields["tasks"],
               noteGroups |-> Undefined, showCategories |-> FALSE]
    /\ rendered = FlatRendering(p.fields["tasks"])

\* C15: a payload with a tasks array and an intent that is not empty is
\* the flat task list with showCategories=false and is rendered without any
\* grouping, whatever categories its tasks carry and whether or not it has
\* noteGroups too.
C15_IntentMeansFlat ==
    (/\ Returned /\ "case1" \in evaluated
     /\ HasArray(Seen, "tasks")
     /\ HasField(Seen, "intent")
     /\ Seen.fields["intent"].type = "string" /\ Seen.fields["intent"].s # "")
        => IsFlatTaskListOf(Seen)

\* C15 witness: a payload with intent, note groups and a task that has a
\* category has been rendered as a flat list.
C15_Witness ==
    /\ Returned
    /\ HasArray(Seen, "tasks") /\ HasArray(Seen, "noteGroups")
    /\ Seen.fields["tasks"] = Arr(<<Task2>>)
    /\ Len(Seen.fields["noteGroups"].items) > 0
    /\ HasField(Seen, "intent") /\ Seen.fields["intent"] = Str("new")
    /\ rendered.mode = "flat"

\* C15 as stated: the intent field has only to be present.
C15_Original ==
    (/\ Returned /\ "case1" \in evaluated
     /\ HasArray(Seen, "tasks")
     /\ HasField(Seen, "intent"))
        => IsFlatTaskListOf(Seen)

\* The grouped task list has been returned and rendered.
GroupedReturned ==
    /\ Returned /\ "case2" \in evaluated
    /\ view.view = "taskList" /\ view.noteGroups # Undefined

\* The task indices of group g of the payload, and those of them that are
\* indices of tasks of the payload.
IndicesOfGroup(g) ==
    LET listed == Seen.fields["noteGroups"].items[g].fields["taskIndices"].items
    IN  [k \in 1..Len(listed) |-> listed[k].n]
InRange(index) == index >= 0 /\ index < Len(Seen.fields["tasks"].items)
UngroupedIndices ==
    {i \in 0..(Len(Seen.fields["tasks"].items) - 1) :
        \A g \in 1..Len(Seen.fields["noteGroups"].items) :
            \A k \in 1..Len(IndicesOfGroup(g)) : IndicesOfGroup(g)[k] # i}

\* Every group of the payload has its section, with the tasks its indices
\* name and nothing for an index out of range.
GroupsAreShown ==
    \A g \in 1..Len(Seen.fields["noteGroups"].items) :
        /\ g <= Len(rendered.sections)
        /\ rendered.sections[g] =
                [title |-> Seen.fields["noteGroups"].items[g].fields["title"],
                 shown |-> SelectSeq(IndicesOfGroup(g), InRange)]

\* The tasks of no group are shown once each in one more section, "Other
\* Tasks", which is there only when there is such a task.
UngroupedAreShownOnce ==
    LET n == Len(Seen.fields["noteGroups"].items)
    IN  IF UngroupedIndices = {} THEN Len(rendered.sections) = n
        ELSE /\ Len(rendered.sections) = n + 1
             /\ rendered.sections[n + 1].title = Str("Other Tasks")
             /\ Len(rendered.sections[n + 1].shown) = Cardinality(UngroupedIndices)
             /\ {rendered.sections[n + 1].shown[k] :
                    k \in 1..Len(rendered.sections[n + 1].shown)} = UngroupedIndices

\* How often the task at an index is shown in all sections together.
TimesShown(index) ==
    Cardinality({<<sct, k>> \in (1..Len(rendered.sections)) \X (1..(MaxTasks + MaxIndices + 1)) :
                    /\ k <= Len(rendered.sections[sct].shown)
                    /\ rendered.sections[sct].shown[k] = index})

\* C16: in the grouped task list with at least one group every task is
\* rendered: under each group whose taskIndices name it, and, when no group
\* names it, once under the extra group "Other Tasks"; an index out of range
\* renders nothing. With no group at all there is no extra group: every task
\* is rendered once, under its category or in the flat list.
C16_GroupedRendering ==
    GroupedReturned =>
        IF Len(Seen.fields["tasks"].items) = 0
        THEN rendered = [mode |-> "empty", sections |-> <<>>]
        ELSE IF Len(Seen.fields["noteGroups"].items) > 0
        THEN /\ rendered.mode = "groups"
             /\ GroupsAreShown
             /\ UngroupedAreShownOnce
             /\ \A i \in 0..(Len(Seen.fields["tasks"].items) - 1) : TimesShown(i) >= 1
        ELSE /\ rendered.mode \in {"categories", "flat"}
             /\ \A sct \in 1..Len(rendered.sections) :
                    rendered.sections[sct].title # Str("Other Tasks")
             /\ \A i \in 0..(Len(Seen.fields["tasks"].items) - 1) : TimesShown(i) = 1

\* C16 witness: two tasks and a group that names the first task and an index
\* out of range; the second task is under "Other Tasks".
C16_Witness ==
    /\ GroupedReturned
    /\ Len(Seen.fields["tasks"].items) = 2
    /\ Len(Seen.fields["noteGroups"].items) = 1
    /\ IndicesOfGroup(1) = <<0, MaxTasks + 3>>
    /\ rendered.sections = <<[title |-> Str("Errands"), shown |-> <<0>>],
                             [title |-> Str("Other Tasks"), shown |-> <<1>>]>>

\* C16 as stated: whatever the groups, a task of no group is under the extra
\* group.
C16_Original ==
    (GroupedReturned /\ Len(Seen.fields["tasks"].items) > 0) =>
        /\ GroupsAreShown
        /\ UngroupedAreShownOnce

\* CASE 7 has been reached by an object with a string content field.
ContentFieldReached ==
    /\ Returned /\ "case7" \in evaluated
    /\ HasField(Seen, "content")
    /\ Seen.fields["content"].type = "string"

\* The title of the payload, when it has one that is not empty.
OwnTitle ==
    IF HasField(Seen, "title") /\ Seen.fields["title"].type = "string"
       /\ Seen.fields["title"].s # ""
    THEN Seen.fields["title"] ELSE Undefined

\* C18: an object with a non-empty string content field that no earlier step
\* takes is the note with content as its body and the payload's own title as
\* its title; the given title is the fallback when the payload has no title.
C18_ContentFieldNote ==
    (ContentFieldReached /\ Seen.fields["content"].s # "") =>
        view = [view |-> "note", content |-> Seen.fields["content"],
                title |-> IF OwnTitle # Undefined THEN OwnTitle ELSE contentTitle]

\* C18 witness: a payload with content and its own title, rendered with
\* another title given.
C18_Witness ==
    /\ ContentFieldReached
    /\ Seen.fields["content"] = Str("body")
    /\ OwnTitle = Str("Soup")
    /\ contentTitle = Str("My note")
    /\ view.view = "note"

\* C18 as stated: the given title first, the payload's own as the fallback.
C18_Original ==
    ContentFieldReached =>
        view = [view |-> "note", content |-> Seen.fields["content"],
                title |-> IF contentTitle # Undefined THEN contentTitle ELSE OwnTitle]

\* CASE 5 has returned: the payload is an array whose first element has text
\* and done.
TaskArrayReturned ==
    /\ Returned /\ "case5" \in evaluated
    /\ Seen.type = "array" /\ Len(Seen.items) > 0
    /\ Seen.items[1].type = "object"
    /\ {"text", "done"} \subseteq DOMAIN Seen.items[1].fields

\* Some task of the array has a category.
SomeCategory ==
    \E i \in 1..Len(Seen.items) :
        /\ Seen.items[i].type = "object"
        /\ "category" \in DOMAIN Seen.items[i].fields

KeywordsOf(group) == IF variant = 1 THEN KeywordsV1(group) ELSE KeywordsV2(group)

\* C29: every keyword of every group is effective. A name that contains a
\* keyword k contains every keyword that k contains, so k is effective
\* exactly when the name k itself is put into k's group: the categorizer
\* called with a keyword returns the category of the keyword's group.
C29_EveryKeywordEffective ==
    cpc = "return" =>
        \A group \in FoodCategorySet :
            item \in KeywordsOf(group) => category = group

(***************************************************************************)
(* Further claims about NotesScreen and GroceryManager (checked under Spec) *)
(***************************************************************************)
\* C24: in the unified list, as built and after toggles, no two items have
\* names that are equal when lower-cased, in one category or in two.
C24_NoDuplicateAnywhere ==
    \A pl, pm \in PlacesOf(unifiedGroceryList) :
        pl # pm => toLowerCase(unifiedGroceryList[pl[1]][pl[2]].text)
                      # toLowerCase(unifiedGroceryList[pm[1]][pm[2]].text)

\* C24 witness: "Milk" and "Chicken" come from two notes; the list has one
\* dairy item and one meat item, and one of them has been toggled.
C24_Witness ==
    /\ \E o, p \in Occurrences :
        /\ o[1] # p[1]
        /\ toLowerCase(OccText(o)) = "milk" /\ OccText(p) = "Chicken"
    /\ DOMAIN unifiedGroceryList = {"dairy", "meat"}
    /\ Cardinality(PlacesOf(unifiedGroceryList)) = 2
    /\ Toggled

\* A done flag of the list differs from the one the notes give.
SomeFlagToggled ==
    \E pl \in PlacesOf(unifiedGroceryList) :
        LET it == unifiedGroceryList[pl[1]][pl[2]]
        IN  /\ OccurrencesNamed(it.text) # {}
            /\ it.done # OccItem(FirstOf(OccurrencesNamed(it.text))).done

\* Every item of the list that the builder has last made is the item that
\* the notes give for its name: not done with its source when the name is
\* first an ingredient, with the done value of the task when it is first a
\* task; and a list that no toggleGroceryItemDone has changed is that list.
LastBuiltIsDerivedFromNotes ==
    /\ \A pl \in PlacesOf(groceryItems) :
        LET it == groceryItems[pl[1]][pl[2]]
        IN  /\ OccurrencesNamed(it.text) # {}
            /\ it = OccItem(FirstOf(OccurrencesNamed(it.text)))
    /\ \A o \in Occurrences : PlacesNamed(groceryItems, OccText(o)) # {}
    /\ ~SomeFlagToggled => unifiedGroceryList = groceryItems

\* A step that changes the notes puts the list that the builder makes of the
\* new notes into the state.
NotesChangeRebuilds ==
    notes' # notes => unifiedGroceryList' = groceryItems'

\* C25: a step that changes the notes (a note is added, toggleTaskDone runs)
\* leaves a list derived from the new notes alone: the done flags set by
\* toggleGroceryItemDone are gone.
C25_NotesChangeDiscardsToggles ==
    [](LastBuiltIsDerivedFromNotes) /\ [][NotesChangeRebuilds]_vars

\* C25 witness: a flag set by toggleGroceryItemDone is in the list while an
\* extraction that will add a note is awaited.
C25_Witness ==
    /\ SomeFlagToggled
    /\ Len(notes) = 1
    /\ isLoading

\* C26: in the first variant the step that ends an extraction keeps every
\* note that was there, with the done values its tasks have at that moment,
\* toggled during the wait or not, and appends the new notes behind them.
C26_ToggleNotLost ==
    [][(variant = 1 /\ isLoading /\ ~isLoading') =>
            /\ Len(notes') >= Len(notes)
            /\ \A k \in 1..Len(notes) : notes'[k] = notes[k]]_vars

\* The items handed in by a prop value: <<group, position>>, in the order in
\* which addItemsFromVoiceOrNote goes through them.
Handed(groups) ==
    {h \in (1..Len(groups)) \X (1..MaxEntries) : h[2] <= Len(groups[h[1]].items)}
HandedItem(groups, h) == groups[h[1]].items[h[2]]
HandedBefore(h, j) == h[1] < j[1] \/ (h[1] = j[1] /\ h[2] < j[2])
HandedNamed(groups, name) ==
    {h \in Handed(groups) : toLowerCase(HandedItem(groups, h).name) = toLowerCase(name)}

\* The quantity an item of a name has after the call: the last quantity
\* handed in for the name that is not empty, and the one it had when there is
\* none.
QuantityAfter(groups, name, had) ==
    LET given == {h \in HandedNamed(groups, name) : HandedItem(groups, h).quantity # ""}
    IN  IF given = {} THEN had
        ELSE HandedItem(groups,
                        CHOOSE h \in given : \A j \in given : j = h \/ HandedBefore(j, h)).quantity

\* The items that were in the list stay where they are, with their names and
\* done flags; only the quantity of an item whose name is handed in with a
\* quantity changes.
ExistingItemsMerged(groups) ==
    \A c \in ManagerCategorySet :
        /\ Len(groceryData'[c]) >= Len(groceryData[c])
        /\ \A i \in 1..Len(groceryData[c]) :
            groceryData'[c][i] =
                [name |-> groceryData[c][i].name,
                 done |-> groceryData[c][i].done,
                 quantity |-> QuantityAfter(groups, groceryData[c][i].name,
                                            groceryData[c][i].quantity)]

\* The items behind them are new: one for each handed-in name that no item of
\* the list had, named as first handed in, not done, in the category of its
\* group, in the order handed in.
NewItemsAppended(groups) ==
    LET isNew(h) ==
            /\ ManagerPlacesNamed(groceryData, HandedItem(groups, h).name) = {}
            /\ \A j \in HandedNamed(groups, HandedItem(groups, h).name) :
                    j = h \/ HandedBefore(h, j)
        news == {h \in Handed(groups) : isNew(h)}
        from(c, i) == CHOOSE h \in news : HandedItem(groups, h).name = groceryData'[c][i].name
    IN  /\ \A c \in ManagerCategorySet :
            \A i \in (Len(groceryData[c]) + 1)..Len(groceryData'[c]) :
                /\ \E h \in news :
                    /\ targetCategoryOf(groups[h[1]].category) = c
                    /\ groceryData'[c][i] =
                            [name |-> HandedItem(groups, h).name, done |-> FALSE,
                             quantity |-> QuantityAfter(groups, HandedItem(groups, h).name, "")]
                /\ \A k \in (i + 1)..Len(groceryData'[c]) :
                    HandedBefore(from(c, i), from(c, k))
        /\ Cardinality(ManagerPlaces(groceryData'))
                = Cardinality(ManagerPlaces(groceryData)) + Cardinality(news)

\* C23: a call of addItemsFromVoiceOrNote merges by name. An item whose
\* lower-cased name is in the list is not appended; the item of that name
\* keeps its place, name and done flag and takes the quantity handed in when
\* that is not empty. Any other item is appended to the category of its
\* group, not done.
C23_MergeByName ==
    [][initialItems' # initialItems =>
            /\ ExistingItemsMerged(initialItems')
            /\ NewItemsAppended(initialItems')]_vars

\* C23 witness: "Milk" with the quantity 2 was handed in when the done item
\* "milk" was in the list; the item is still done and named "milk", with the
\* quantity 2.
C23_Witness ==
    /\ variant = 3
    /\ Len(initialItems) = 1
    /\ initialItems[1].items = <<[name |-> "Milk", quantity |-> "2"]>>
    /\ groceryData["dairy"] = <<[name |-> "milk", quantity |-> "2", done |-> TRUE]>>
    /\ Cardinality(ManagerPlaces(groceryData)) = 1

\* C30: in GroceryManager, whatever addItemsFromVoiceOrNote, handleToggleItem
\* and clearCompletedItems calls there have been, the list has the six
\* categories as its keys and no two of its items, in one category or in two,
\* have names that are equal when lower-cased.
C30_ManagerNoDuplicates ==
    variant = 3 =>
        /\ DOMAIN groceryData = {"produce", "dairy", "meat", "bakery", "pantry", "other"}
        /\ \A pl, pm \in ManagerPlaces(groceryData) :
            pl # pm => toLowerCase(groceryData[pl[1]][pl[2]].name)
                          # toLowerCase(groceryData[pm[1]][pm[2]].name)

\* C30 witness: "Milk " is in produce and "Milk" in dairy, handed in as
\* dairy and toggled since.
C30_Witness ==
    /\ variant = 3
    /\ ~pendingLoad.pending
    /\ Len(groceryData["produce"]) = 1 /\ groceryData["produce"][1].name = "Milk "
    /\ Len(groceryData["dairy"]) = 1 /\ groceryData["dairy"][1].done
    /\ groceryData["dairy"][1].name = "Milk"

\* The names of a stored list.
NamesStored(list) ==
    IF list = <<>> THEN {}
    ELSE {list[pl[1]][pl[2]].name : pl \in ManagerPlaces(list)}

\* Every name of the set has an item in the list in memory and in storage.
AllPresent(names, data, stored) ==
    \A n \in names :
        /\ ManagerPlacesNamed(data, n) # {}
        /\ stored # <<>> /\ ManagerPlacesNamed(stored, n) # {}

\* C27: when the later of the two, the answer of loadGroceryList or the call
\* of addItemsFromVoiceOrNote with its save, has been handled, the items that
\* were stored before the mount and the items handed in are all in the list in
\* memory and in storage.
C27_StoredAndHandedInPresent ==
    [][/\ (pendingLoad.pending /\ ~pendingLoad'.pending /\ initialItems # <<>>) =>
            AllPresent(NamesStored(pendingLoad.savedList) \cup NamesHandedIn(initialItems),
                       groceryData', storedList')
       /\ (~pendingLoad.pending /\ initialItems = <<>> /\ initialItems' # <<>>) =>
            AllPresent({groceryData[pl[1]][pl[2]].name : pl \in ManagerPlaces(groceryData)}
                          \cup NamesHandedIn(initialItems'),
                       groceryData', storedList')]_vars

(***************************************************************************)
(* The AI gateway (src/testexpo/app/metro.config.js, src/lib/ai.ts).       *)
(* Each function awaits a remote call, reads the answer and returns; one   *)
(* try block holds all of it.  The remote side is the environment: what a  *)
(* call gives is chosen from the outcomes a request can have.              *)
(***************************************************************************)
\* How the promise of an async function settles.
Fulfilled(v) == [state |-> "fulfilled", value |-> v]
Rejected == [state |-> "rejected", value |-> Undefined]

\* What a statement inside a try block gives: a value, or an exception.
Gives(v) == [threw |-> FALSE, value |-> v]
Thrown == [threw |-> TRUE, value |-> Undefined]

\* await openai.chat.completions.create(...): the request rejects, the
\* completion has no choices, or it has message.content (a string or null).
Completions ==
    {[kind |-> "rejected"], [kind |-> "nochoices"], [kind |-> "content", content |-> Null]}
    \cup {[kind |-> "content", content |-> Str(t)] :
            t \in {Stringify(DefaultTaskExtraction), Stringify(Obj(<<>>)), "null",
                   Stringify(Obj([tasks |-> Arr(<<Task1>>), intent |-> Str("new"),
                                  reason |-> Str("x")])),
                   Stringify(Obj([action |-> Str("append"), reason |-> Str("x")])),
                   Stringify(Obj([contentType |-> Str("recipe"), confidence |-> Num(1),
                                  reasoning |-> Str("x")])),
                   Stringify(Obj([enhancedText |-> Str("2 lb beef"),
                                  mealPlan |-> Str("stew")]))}
                  \cup PlainTexts}

\* JSON.parse(completion.choices[0].message.content); a content of null is
\* parsed as the text "null".
ParseAnswer(completion) ==
    IF completion.kind # "content" THEN Thrown
    ELSE LET text == IF completion.content.type = "null" THEN "null"
                     ELSE completion.content.s
         IN  IF IsJSON(text) THEN Gives(JSONParse(text)) ELSE Thrown

\* result.key of a parsed answer: reading a property of null throws.
AnyMissing(result) == ThrowsOnRead(result)

\* metro.config.js: extractTasksFromText(text)
extractTasksFromTextRaises(text, completion) ==
    LET result == ParseAnswer(completion)
    IN  IF result.threw THEN Rejected ELSE Fulfilled(result.value)
extractTasksFromText(text, completion) ==
    LET result == ParseAnswer(completion)
    IN  IF result.threw THEN Fulfilled(DefaultTaskExtraction) ELSE Fulfilled(result.value)

\* metro.config.js: categorizeTasksAndSuggestNotes(text)
categorizeTasksAndSuggestNotes(text, completion) ==
    LET result == ParseAnswer(completion)
    IN  IF result.threw THEN Fulfilled(DefaultCategorization) ELSE Fulfilled(result.value)

\* metro.config.js: identifyContentType(text)
DefaultContentType ==
    Obj([contentType |-> Str("unknown"), confidence |-> Num(0),
         reasoning |-> Str("Error during content type identification")])
identifyContentType(text, completion) ==
    LET result == ParseAnswer(completion)
    IN  IF result.threw \/ AnyMissing(result.value) THEN Fulfilled(DefaultContentType)
        ELSE Fulfilled(Obj([contentType |-> OrElse(Get(result.value, "contentType"),
                                                   Str("unknown")),
                            confidence |-> OrElse(Get(result.value, "confidence"), Num(0)),
                            reasoning |-> OrElse(Get(result.value, "reasoning"), Str(""))]))

\* metro.config.js: enhanceGroceryContent(text)
DefaultEnhancement(text) == Obj([enhancedText |-> Str(text)])
enhanceGroceryContent(text, completion) ==
    LET result == ParseAnswer(completion)
    IN  IF result.threw \/ AnyMissing(result.value) THEN Fulfilled(DefaultEnhancement(text))
        ELSE Fulfilled(Obj([enhancedText |-> OrElse(Get(result.value, "enhancedText"),
                                                    Str(text)),
                            mealPlan |-> Get(result.value, "mealPlan"),
                            suggestions |-> Get(result.value, "suggestions")]))

\* metro.config.js: extractGroceryList(text)
extractGroceryList(text, completion) ==
    LET result == ParseAnswer(completion)
    IN  IF result.threw THEN Fulfilled(DefaultGroceryList) ELSE Fulfilled(result.value)

\* metro.config.js: generateRecipeDetails(text, title)
generateRecipeDetails(text, title, completion) ==
    LET result == ParseAnswer(completion)
    IN  IF result.threw THEN Fulfilled(DefaultRecipe(title)) ELSE Fulfilled(result.value)

\* src/lib/ai.ts: extractTasksFromText(text), two requests in one try block:
\* the intent first, then the tasks.
libExtractTasksFromText(text, intentCompletion, completion) ==
    LET intent == ParseAnswer(intentCompletion)
        result == ParseAnswer(completion)
    IN  IF intent.threw \/ result.threw \/ AnyMissing(result.value)
           \/ AnyMissing(intent.value)
        THEN Fulfilled(DefaultTaskExtraction)
        ELSE Fulfilled(Obj([tasks |-> OrElse(Get(result.value, "tasks"), Arr(<<>>)),
                            intent |-> Get(intent.value, "action"),
                            reason |-> Get(intent.value, "reason")]))

\* src/lib/ai.ts: categorizeTasksAndSuggestNotes(text)
libCategorizeTasksAndSuggestNotes(text, completion) ==
    LET result == ParseAnswer(completion)
    IN  IF result.threw \/ AnyMissing(result.value)
        THEN Fulfilled(Obj([tasks |-> Arr(<<>>), noteGroups |-> Arr(<<>>),
                            reasoning |-> Str("Error processing text")]))
        ELSE Fulfilled(Obj([tasks |-> OrElse(Get(result.value, "tasks"), Arr(<<>>)),
                            noteGroups |-> OrElse(Get(result.value, "noteGroups"),
                                                  Arr(<<>>)),
                            reasoning |-> OrElse(Get(result.value, "reasoning"), Str(""))]))

\* The Deepgram side of a transcription: the fetch rejects, the status is not
\* ok, the body is no JSON, the data lacks results.channels[0].alternatives[0],
\* or the data holds a transcript (a string, or none).
Transcripts == {Undefined, Str(""), Str("  "), Str("buy milk"), Str("call mom")}
DeepgramResponses ==
    {[kind |-> "rejected"], [kind |-> "status"], [kind |-> "nojson"], [kind |-> "malformed"]}
    \cup {[kind |-> "data", transcript |-> t] : t \in Transcripts}

\* The blobs handed to transcribeAudio: null, or a Blob whose arrayBuffer()
\* resolves or rejects.
AudioBlobs == {Null} \cup {[type |-> "object", size |-> n, readable |-> r] :
                              n \in {0, 1}, r \in BOOLEAN}

\* metro.config.js: transcribeAudio(audioBlob)
transcribeAudio(audioBlob, response) ==
    LET transcript ==
            IF ~Truthy(audioBlob) \/ audioBlob.type # "object" THEN Thrown
            ELSE IF ~audioBlob.readable THEN Thrown
            ELSE IF response.kind # "data" THEN Thrown
            ELSE Gives(OrElse(response.transcript, Str("")))
    IN  IF transcript.threw THEN Fulfilled(Str("")) ELSE Fulfilled(transcript.value)

\* The recording on the device as the file system shows it (not there, there
\* but not readable, of no bytes, or with audio), and DEEPGRAM_KEY.
Files == {"missing", "unreadable", "empty", "readable"}
DeepgramKeys == {"", "dg_0123456789"}
AudioUris == {Str("file:///rec.m4a"), Str(""), Undefined}

\* metro.config.js: transcribeAudioUri(audioUri)
transcribeAudioUri(audioUri, key, file, response) ==
    LET transcript ==
            IF ~Truthy(audioUri) \/ audioUri.type # "string" THEN Thrown
            ELSE IF key = "" \/ Len(key) < 10 THEN Thrown
            ELSE IF file = "missing" THEN Thrown
            ELSE IF file = "unreadable" THEN Thrown
            ELSE IF response.kind # "data" THEN Thrown
            ELSE IF ~Truthy(response.transcript) THEN Thrown
            ELSE Gives(OrElse(response.transcript, Str("")))
    IN  IF transcript.threw THEN Fulfilled(Str("")) ELSE Fulfilled(transcript.value)

\* The arguments the callers of the model pass.
GatewayTexts == {"", "buy milk"}
GivenTitles == {"", "Soup"}

OtherServices(idle) == idle /\ CatIdle /\ ScreenIdle /\ ManagerIdle /\ DetectorIdle

GatewayInit ==
    /\ variant = 5
    /\ OtherServices(RecorderIdle /\ AppIdle)
    /\ GatewayIdle

\* A call of a gateway function, up to the settling of the promise it returned.
Settle(fn, args, environment, outcome) ==
    /\ variant = 5
    /\ gatewayPc = "idle"
    /\ callFn' = fn
    /\ callArgs' = args
    /\ remote' = environment
    /\ settled' = outcome
    /\ gatewayPc' = "settled"
    /\ UNCHANGED <<variant, catVars, screenVars, managerVars, detectorVars, recorderVars,
                   appVars>>

CallExtractTasksFromText ==
    \E text \in GatewayTexts, completion \in Completions :
        Settle("extractTasksFromText", [text |-> text], [completions |-> <<completion>>],
               extractTasksFromText(text, completion))
CallCategorizeTasksAndSuggestNotes ==
    \E text \in GatewayTexts, completion \in Completions :
        Settle("categorizeTasksAndSuggestNotes", [text |-> text], [completions |-> <<completion>>],
               categorizeTasksAndSuggestNotes(text, completion))
CallIdentifyContentType ==
    \E text \in GatewayTexts, completion \in Completions :
        Settle("identifyContentType", [text |-> text], [completions |-> <<completion>>],
               identifyContentType(text, completion))
CallEnhanceGroceryContent ==
    \E text \in GatewayTexts, completion \in Completions :
        Settle("enhanceGroceryContent", [text |-> text], [completions |-> <<completion>>],
               enhanceGroceryContent(text, completion))
CallExtractGroceryList ==
    \E text \in GatewayTexts, completion \in Completions :
        Settle("extractGroceryList", [text |-> text], [completions |-> <<completion>>],
               extractGroceryList(text, completion))
CallGenerateRecipeDetails ==
    \E text \in GatewayTexts, title \in GivenTitles, completion \in Completions :
        Settle("generateRecipeDetails", [text |-> text, title |-> title], [completions |-> <<completion>>],
               generateRecipeDetails(text, title, completion))
CallLibExtractTasksFromText ==
    \E text \in GatewayTexts, intentCompletion \in Completions, completion \in Completions :
        Settle("lib/extractTasksFromText", [text |-> text],
               [completions |-> <<intentCompletion, completion>>],
               libExtractTasksFromText(text, intentCompletion, completion))
CallLibCategorizeTasksAndSuggestNotes ==
    \E text \in GatewayTexts, completion \in Completions :
        Settle("lib/categorizeTasksAndSuggestNotes", [text |-> text], [completions |-> <<completion>>],
               libCategorizeTasksAndSuggestNotes(text, completion))
CallTranscribeAudio ==
    \E audioBlob \in AudioBlobs, response \in DeepgramResponses :
        Settle("transcribeAudio", [audioBlob |-> audioBlob], [response |-> response],
               transcribeAudio(audioBlob, response))
CallTranscribeAudioUri ==
    \E audioUri \in AudioUris, key \in DeepgramKeys, file \in Files,
       response \in DeepgramResponses :
        Settle("transcribeAudioUri", [audioUri |-> audioUri],
               [key |-> key, file |-> file, response |-> response],
               transcribeAudioUri(audioUri, key, file, response))


(***************************************************************************)
(* AudioRecorder.processAudioFile (src/src/components/AudioRecorder.tsx),  *)
(* one action per await.                                                   *)
(***************************************************************************)
RecorderInit ==
    /\ variant = 6
    /\ OtherServices(GatewayIdle /\ AppIdle)
    /\ recorderPc = "idle"
    /\ recorderIsLoading = FALSE
    /\ uri = "file:///rec.m4a"
    /\ recording \in [file : Files, key : DeepgramKeys]
    /\ uriTranscription = Undefined
    /\ blobTranscription = Undefined
    /\ attempts = <<>>
    /\ delivered = <<>>
    /\ alerts = <<>>

RecorderOthers == <<variant, catVars, screenVars, managerVars, detectorVars, gatewayVars,
                    appVars, uri, recording>>

\* The bug "a transcript of spaces is a transcript".
NonBlankUntrimmed(transcription) == Truthy(transcription)

\* transcription && transcription.trim()
NonBlank(transcription) ==
    Truthy(transcription) /\ transcription.type = "string" /\ Trim(transcription.s) # ""

\* stopRecording: await processAudioFile(uri), up to the first await.
processAudioFile ==
    /\ variant = 6
    /\ recorderPc = "idle"
    /\ recorderIsLoading' = TRUE
    /\ recorderPc' = "uri"
    /\ UNCHANGED <<RecorderOthers, uriTranscription, blobTranscription, attempts, delivered,
                   alerts>>

\* const transcription = await transcribeAudioUri(uri), and the if after it.
\* A rejection is caught by catch (uriError), which goes on to the blob method.
UriAttempt ==
    /\ variant = 6
    /\ recorderPc = "uri"
    /\ \E response \in DeepgramResponses :
        LET promise == transcribeAudioUri(Str(uri), recording.key, recording.file, response)
        IN  /\ attempts' = Append(attempts, "transcribeAudioUri")
            /\ IF promise.state = "rejected"
               THEN /\ recorderPc' = "read"
                    /\ UNCHANGED <<uriTranscription, delivered>>
               ELSE /\ uriTranscription' = promise.value
                    /\ IF NonBlank(promise.value)
                       THEN /\ delivered' = Append(delivered, promise.value)
                            /\ recorderPc' = "finally"
                       ELSE /\ recorderPc' = "read"
                            /\ UNCHANGED delivered
    /\ UNCHANGED <<RecorderOthers, recorderIsLoading, blobTranscription, alerts>>

\* base64ToBlob(base64Audio, 'audio/m4a'): an empty Blob for an empty or
\* undecodable text.
base64ToBlob(file) ==
    [type |-> "object", size |-> IF file = "readable" THEN 1 ELSE 0, readable |-> TRUE]

\* await FileSystem.readAsStringAsync(uri, ...), base64ToBlob and the check of
\* the blob; what is thrown here goes to the outer catch.
ReadRecording ==
    /\ variant = 6
    /\ recorderPc = "read"
    /\ IF recording.file \in {"missing", "unreadable"}
          \/ base64ToBlob(recording.file).size = 0
       THEN /\ alerts' = Append(alerts, "Error")
            /\ recorderPc' = "finally"
       ELSE /\ recorderPc' = "blob"
            /\ UNCHANGED alerts
    /\ UNCHANGED <<RecorderOthers, recorderIsLoading, uriTranscription, blobTranscription,
                   attempts, delivered>>

\* const transcription = await transcribeAudio(audioBlob), and the if after it.
BlobAttempt ==
    /\ variant = 6
    /\ recorderPc = "blob"
    /\ \E response \in DeepgramResponses :
        LET promise == transcribeAudio(base64ToBlob(recording.file), response)
        IN  /\ attempts' = Append(attempts, "transcribeAudio")
            /\ IF promise.state = "rejected"
               THEN /\ alerts' = Append(alerts, "Error")
                    /\ UNCHANGED <<blobTranscription, delivered>>
               ELSE /\ blobTranscription' = promise.value
                    /\ IF NonBlank(promise.value)
                       THEN /\ delivered' = Append(delivered, promise.value)
                            /\ UNCHANGED alerts
                       ELSE /\ alerts' = Append(alerts, "Transcription Error")
                            /\ UNCHANGED delivered
    /\ recorderPc' = "finally"
    /\ UNCHANGED <<RecorderOthers, recorderIsLoading, uriTranscription>>

\* finally: setIsLoading(false), and the recording is deleted.
FinallyOfProcessAudioFile ==
    /\ variant = 6
    /\ recorderPc = "finally"
    /\ recorderIsLoading' = FALSE
    /\ recorderPc' = "done"
    /\ UNCHANGED <<RecorderOthers, uriTranscription, blobTranscription, attempts, delivered,
                   alerts>>


(***************************************************************************)
(* App start-up (src/unnamed/part_006): checkApiKeys of the mount effect,  *)
(* and what App renders.                                                   *)
(***************************************************************************)
\* src/lib/env-check.ts, checkEnvironmentVariables: key && key !== placeholder
\* && key.length > 10, for each of the three keys.
IsKeyValid(key, placeholder) == key # "" /\ key # placeholder /\ Len(key) > 10
checkEnvironmentVariables(openaiKey, googleKey, deepgramKey) ==
    [isOpenAIKeyValid |-> IsKeyValid(openaiKey, "your_openai_api_key_here"),
     isGoogleKeyValid |-> IsKeyValid(googleKey, "your_google_ai_api_key_here"),
     isDeepgramKeyValid |-> IsKeyValid(deepgramKey, "your_deepgram_api_key_here"),
     allValid |-> /\ IsKeyValid(openaiKey, "your_openai_api_key_here")
                  /\ IsKeyValid(googleKey, "your_google_ai_api_key_here")
                  /\ IsKeyValid(deepgramKey, "your_deepgram_api_key_here")]

\* The keys an installation may have.
OpenAIKeys == {"", "your_openai_api_key_here", "sk-short", "sk-0123456789"}
GoogleKeys == {"your_google_ai_api_key_here", "AIza0123456789"}

KeyError == Str("API key error. One or more API keys are missing or invalid.")
ConnectionError ==
    Str("API connection error. Please check your .env file and network connection.")

\* useState(true), useState(null), useState(null)
AppInit ==
    /\ variant = 7
    /\ OtherServices(GatewayIdle /\ RecorderIdle)
    /\ appPc = "mounted"
    /\ appIsLoading = TRUE
    /\ appError = Null
    /\ envStatus = Null
    /\ testRequest = <<>>

AppOthers == <<variant, catVars, screenVars, managerVars, detectorVars, gatewayVars,
               recorderVars>>

\* checkApiKeys up to its await.
checkApiKeys ==
    /\ variant = 7
    /\ appPc = "mounted"
    /\ \E openaiKey \in OpenAIKeys, googleKey \in GoogleKeys, deepgramKey \in DeepgramKeys :
        LET status == checkEnvironmentVariables(openaiKey, googleKey, deepgramKey)
        IN  /\ envStatus' = status
            /\ IF ~status.allValid
               THEN /\ appError' = KeyError
                    /\ appIsLoading' = FALSE
                    /\ appPc' = "done"
               ELSE /\ appPc' = "awaiting"
                    /\ UNCHANGED <<appError, appIsLoading>>
    /\ UNCHANGED <<AppOthers, testRequest>>

\* const testResult = await extractTasksFromText("Test connection") and what
\* follows it; a rejection goes to the catch block.
TestConnection ==
    /\ variant = 7
    /\ appPc = "awaiting"
    /\ \E intentCompletion \in Completions, completion \in Completions :
        LET testResult ==
                libExtractTasksFromText("Test connection", intentCompletion, completion)
        IN  /\ testRequest' = <<intentCompletion, completion>>
            /\ IF testResult.state = "rejected"
               THEN appError' = ConnectionError
               ELSE UNCHANGED appError
    /\ appIsLoading' = FALSE
    /\ appPc' = "done"
    /\ UNCHANGED <<AppOthers, envStatus>>

\* What App returns: the loading view, the error view, or the main screen.
AppView ==
    IF appIsLoading THEN "loading"
    ELSE IF Truthy(appError) THEN "error"
    ELSE "main"

ServicesInit == GatewayInit \/ RecorderInit \/ AppInit

ServicesNext ==
    \/ CallExtractTasksFromText
    \/ CallCategorizeTasksAndSuggestNotes
    \/ CallIdentifyContentType
    \/ CallEnhanceGroceryContent
    \/ CallExtractGroceryList
    \/ CallGenerateRecipeDetails
    \/ CallLibExtractTasksFromText
    \/ CallLibCategorizeTasksAndSuggestNotes
    \/ CallTranscribeAudio
    \/ CallTranscribeAudioUri
    \/ processAudioFile
    \/ UriAttempt
    \/ ReadRecording
    \/ BlobAttempt
    \/ FinallyOfProcessAudioFile
    \/ checkApiKeys
    \/ TestConnection

SpecServices == ServicesInit /\ [][ServicesNext]_vars

\* The start-up under the scheduling of the effect: checkApiKeys runs once the
\* App is mounted, and a request that was sent settles.
SpecServicesFair == SpecServices /\ WF_vars(checkApiKeys) /\ WF_vars(TestConnection)

(***************************************************************************)
(* Claims about the gateway, AudioRecorder and App (checked under          *)
(* SpecServices).                                                          *)
(***************************************************************************)
\* A completion did not arrive, or its content is no JSON text.
CompletionFailed(completion) ==
    \/ completion.kind # "content"
    \/ /\ completion.content.type = "string"
       /\ completion.content.s \notin {Stringify(v) : v \in TextValues}

\* The remote call of the settled gateway call failed, or its answer did not
\* parse.
CallFailed ==
    IF callFn \in {"transcribeAudio", "transcribeAudioUri"}
    THEN remote.response.kind # "data"
    ELSE \E i \in 1..Len(remote.completions) : CompletionFailed(remote.completions[i])

EmptyCategories ==
    Obj([categories |-> Obj([c \in {"produce", "dairy", "meat", "bakery", "pantry", "other"}
                                |-> Arr(<<>>)])])

\* The fixed default of the function that was called.
SafeDefaultOfCall ==
    CASE callFn \in {"extractTasksFromText", "lib/extractTasksFromText"} ->
            Obj([tasks |-> Arr(<<>>), intent |-> Str("new"),
                 reason |-> Str("Error processing text")])
      [] callFn \in {"categorizeTasksAndSuggestNotes", "lib/categorizeTasksAndSuggestNotes"} ->
            Obj([tasks |-> Arr(<<>>), noteGroups |-> Arr(<<>>),
                 reasoning |-> Str("Error processing text")])
      [] callFn = "identifyContentType" ->
            Obj([contentType |-> Str("unknown"), confidence |-> Num(0),
                 reasoning |-> Str("Error during content type identification")])
      [] callFn = "enhanceGroceryContent" -> Obj([enhancedText |-> Str(callArgs.text)])
      [] callFn = "extractGroceryList" -> EmptyCategories
      [] callFn = "generateRecipeDetails" ->
            Obj([title |-> Str(IF callArgs.title = "" THEN "Recipe" ELSE callArgs.title),
                 ingredients |-> Arr(<<>>), instructions |-> Arr(<<>>),
                 prepTime |-> Str("30 mins"), cookTime |-> Str("45 mins"),
                 servings |-> Num(4)])
      [] callFn \in {"transcribeAudio", "transcribeAudioUri"} -> Str("")

\* C21: no gateway function raises to its caller: the promise of every call
\* is fulfilled, and when the remote call or the parsing of its answer failed
\* it is fulfilled with the fixed safe default of the function (empty arrays,
\* 'new' intent, six empty categories, empty transcript, or the input text).
C21_NeverRaises ==
    gatewayPc = "settled" =>
        /\ settled.state = "fulfilled"
        /\ CallFailed => settled.value = SafeDefaultOfCall

\* A gateway call whose request was rejected has settled.
C21_Witness ==
    /\ gatewayPc = "settled"
    /\ callFn = "extractTasksFromText"
    /\ remote.completions[1].kind = "rejected"
    /\ settled.state = "fulfilled"

\* A transcript that is missing, empty or white space only.
BlankText(v) == v.type # "string" \/ Trim(v.s) = ""
Attempted(fn) == \E i \in 1..Len(attempts) : attempts[i] = fn
UriAttemptFailed == Attempted("transcribeAudioUri") /\ BlankText(uriTranscription)

\* The first non-blank transcript of the run, if there is one.
FirstTranscripts ==
    IF ~BlankText(uriTranscription) THEN <<uriTranscription>>
    ELSE IF ~BlankText(blobTranscription) THEN <<blobTranscription>>
    ELSE <<>>

\* The parts of the chain that do not depend on reading the recording: URI
\* first, blob only after a failed URI attempt, the callback at most once with
\* the first non-blank transcript, an alert and no callback when both are blank.
ChainOrder ==
    /\ attempts \in {<<>>, <<"transcribeAudioUri">>, <<"transcribeAudioUri", "transcribeAudio">>}
    /\ Attempted("transcribeAudio") => UriAttemptFailed
    /\ Len(delivered) <= 1
    /\ recorderPc \in {"finally", "done"} => delivered = FirstTranscripts
    /\ (recorderPc \in {"finally", "done"} /\ Attempted("transcribeAudio")
            /\ BlankText(blobTranscription))
        => alerts # <<>> /\ delivered = <<>>

\* C22 (amended): processAudioFile runs a one-level fallback chain: URI
\* transcription is attempted first; blob transcription is attempted only if
\* the URI attempt threw or returned blank text, and then exactly when the
\* recording can be read into a non-empty blob; when it cannot, the user is
\* alerted and the callback is not invoked; onTranscriptionComplete is invoked
\* at most once per recording, with the first non-blank transcript; when both
\* attempts are blank the user is alerted and the callback is not invoked.
C22_FallbackChain ==
    variant = 6 =>
        /\ ChainOrder
        /\ recorderPc \in {"finally", "done"} =>
            /\ Attempted("transcribeAudioUri")
            /\ Attempted("transcribeAudio") <=>
                    (UriAttemptFailed /\ recording.file = "readable")
            /\ (UriAttemptFailed /\ recording.file # "readable")
                    => alerts = <<"Error">> /\ delivered = <<>>

\* The URI attempt returned white space, the blob attempt a transcript, and
\* the callback got the second.
C22_Witness ==
    /\ recorderPc = "done"
    /\ uriTranscription = Str("  ")
    /\ attempts = <<"transcribeAudioUri", "transcribeAudio">>
    /\ delivered = <<Str("buy milk")>>
    /\ alerts = <<>>

\* C22 as stated: the blob attempt is made if and only if the URI attempt
\* threw or returned blank text.
C22_Original ==
    (variant = 6 /\ recorderPc \in {"finally", "done"}) =>
        (Attempted("transcribeAudio") <=> UriAttemptFailed)

\* A request of the connection test was rejected.
TestRequestFailed ==
    /\ testRequest # <<>>
    /\ \E i \in 1..Len(testRequest) : testRequest[i].kind = "rejected"

\* C28: at App start-up, when the API keys pass the format check but the test
\* request to the AI provider fails, the App leaves the loading state and
\* enters the error state ('API connection error') instead of showing the
\* main screen.
C28_FailedTestShowsError ==
    (variant = 7 /\ appPc = "done" /\ envStatus.allValid /\ TestRequestFailed) =>
        /\ ~appIsLoading
        /\ appError = ConnectionError
        /\ AppView = "error"

\* The other half of C28, under SpecServicesFair: on every path isLoading
\* eventually becomes false.
LoadingEnds == (variant = 7) ~> ~appIsLoading

====
